---- MODULE Spec2Model ----
(***************************************************************************)
(* Coordinator of the A.L.F.R.E.D. agent fleet: the agent directory,       *)
(* agent selection, command dispatch, the rate-limited retrying health     *)
(* sweep and the semaphore-bounded discovery fan-out of                    *)
(* coordinator/core/coordinator.py.                                        *)
(***************************************************************************)
EXTENDS Integers, Sequences, FiniteSets, TLC

(***************************************************************************)
(* Bounds of the model.                                                    *)
(***************************************************************************)
MaxTime == 10
MaxCalls == 2
MaxHistory == 2
MaxCycles == 3
MaxDatagrams == 3
MaxHosts == 2
NumCandidates == 11

(***************************************************************************)
(* Constants of the program.                                               *)
(***************************************************************************)
RateLimitSeconds == 10
HealthPeriod == 45
DiscoveryPeriod == 300
WebPeriod == 60
MaxAttempts == 3
SemaphorePermits == 10
DatetimeMin == -1000000
DefaultPort == 5001
RecvTimeout == 3
WindowSeconds == 3
ScanLimit == 20
LastHost == 254

\* the clock advances in steps of half the rate-limit window
TickStep == RateLimitSeconds \div 2

None == "None"
NonString == "#non-string"

(***************************************************************************)
(* Values the environment supplies.                                        *)
(***************************************************************************)
AgentIds == {"a1", "a2"}
Names == {"n1"}
OsTypes == {"Linux", "Windows"}
Hosts == {"h1", "h2"}
UserInputs == {"list files"}

\* AgentInfo (shared/models.py) as a caller of register_agent builds it; tz says
\* whether last_seen carries a UTC offset
NewAgentInfo ==
    [id : AgentIds, name : Names, os_type : OsTypes, host : Hosts,
     port : {DefaultPort}, last_seen : {0}, tz : BOOLEAN, is_healthy : BOOLEAN]

\* the registrations of the dispatch specification: one address, naive timestamps
DispatchAgentInfo == {d \in NewAgentInfo : d.host = "h1" /\ ~d.tz}

\* str.lower() on the strings of the model
Lower(s) ==
    CASE s = "Linux" -> "linux"
      [] s = "LINUX" -> "linux"
      [] s = "Windows" -> "windows"
      [] s = "WINDOWS" -> "windows"
      [] OTHER -> s

IsStr(v) == v # NonString

\* the health filter left out
SelectHealthy_all(s) == s

RECURSIVE SelectHealthy(_)
SelectHealthy(s) ==
    IF s = <<>> THEN <<>>
    ELSE IF Head(s).is_healthy THEN <<Head(s)>> \o SelectHealthy(Tail(s))
         ELSE SelectHealthy(Tail(s))

\* the OS filter comparing the strings as they are
RECURSIVE SelectOs_exact(_, _)
SelectOs_exact(s, target_os) ==
    IF s = <<>> THEN <<>>
    ELSE IF Head(s).os_type = target_os
         THEN <<Head(s)>> \o SelectOs_exact(Tail(s), target_os)
         ELSE SelectOs_exact(Tail(s), target_os)

RECURSIVE SelectOs(_, _)
SelectOs(s, target_os) ==
    IF s = <<>> THEN <<>>
    ELSE IF Lower(Head(s).os_type) = Lower(target_os)
         THEN <<Head(s)>> \o SelectOs(Tail(s), target_os)
         ELSE SelectOs(Tail(s), target_os)

Ids(dir) == {dir[i].id : i \in 1..Len(dir)}

IndexOf(dir, id) == CHOOSE i \in 1..Len(dir) : dir[i].id = id

Lookup(dir, id) == dir[IndexOf(dir, id)]

\* the insertion-ordered dict self.agents holds one value per key
UniqueIds(dir) == \A i, j \in 1..Len(dir) : dir[i].id = dir[j].id => i = j

\* register_agent that adds an entry without looking for the id
register_agent_append(dir, agent_info) == Append(dir, agent_info)

\* register_agent that deletes the old entry and inserts the new one at the end
register_agent_reinsert(dir, agent_info) ==
    Append(SelectSeq(dir, LAMBDA a : a.id # agent_info.id), agent_info)

\* self.agents[agent_info.id] = agent_info
register_agent(dir, agent_info) ==
    IF agent_info.id \in Ids(dir)
    THEN [dir EXCEPT ![IndexOf(dir, agent_info.id)] = agent_info]
    ELSE Append(dir, agent_info)

\* the warning of a replacement and the total that register_agent logs
RegisterLog(dir, agent_info) ==
    [replaced |-> agent_info.id \in Ids(dir), id |-> agent_info.id,
     total |-> Len(register_agent(dir, agent_info))]

(***************************************************************************)
(* parse_command: the translator's reply, as json.loads sees it.           *)
(***************************************************************************)
TargetValues == {"any", "WINDOWS", "macos", NonString}

JsonObjects ==
    [target_os : TargetValues, command : {"ls"}]
        \cup [target_os : {"any"}]
        \cup [command : {"ls"}]

JsonValues ==
    {[json |-> "object", obj |-> o] : o \in JsonObjects} \cup {[json |-> "array"]}

\* fenced_json is a reply wrapped in a ```json block, which parse_command strips
TranslatorOutcomes ==
    {[kind |-> "api_error"], [kind |-> "empty"], [kind |-> "malformed"]}
        \cup {[kind |-> "json", value |-> v] : v \in JsonValues}
        \cup {[kind |-> "fenced_json", value |-> v] :
                  v \in {w \in JsonValues : w.json = "array"}}

Fallback(user_input) ==
    [json |-> "object", obj |-> [target_os |-> "any", command |-> user_input]]

\* the function-local "import json" leaves the name unbound in the except
\* clause when the try body fails before reaching the import
parse_command(user_input, tr) ==
    CASE tr.kind = "api_error" -> [kind |-> "raise", exc |-> "UnboundLocalError"]
      [] tr.kind = "empty" -> [kind |-> "raise", exc |-> "UnboundLocalError"]
      [] tr.kind = "malformed" -> [kind |-> "return", value |-> Fallback(user_input)]
      [] OTHER -> [kind |-> "return", value |-> tr.value]

select_agent(dir, parsed_command) ==
    IF parsed_command.json # "object"
    THEN [kind |-> "raise", exc |-> "AttributeError"]
    ELSE LET obj == parsed_command.obj
             target_os == IF "target_os" \in DOMAIN obj THEN obj.target_os ELSE "any"
             healthy_agents == SelectHealthy(dir)
         IN  IF healthy_agents = <<>> THEN [kind |-> "none"]
             ELSE IF target_os # "any" /\ ~IsStr(target_os)
                  THEN [kind |-> "raise", exc |-> "AttributeError"]
             ELSE IF target_os # "any" /\ SelectOs(healthy_agents, target_os) # <<>>
                  THEN [kind |-> "agent", agent |-> SelectOs(healthy_agents, target_os)[1]]
             ELSE [kind |-> "agent", agent |-> healthy_agents[1]]

(***************************************************************************)
(* Replies of an agent to POST /execute, as the coordinator receives them. *)
(***************************************************************************)
\* the bodies the agent's /execute route builds: error is the stderr of the
\* command, the empty string when the command wrote nothing to it
CommandResultBodies ==
    [success : {TRUE}, error : {""}, execution_time_ms : {7},
     command : {"ls"}, agent_id : {"a1"}]
        \cup [success : {FALSE}, error : {"", "stderr"}, execution_time_ms : {7},
              command : {"ls"}, agent_id : {"a1"}]

ExecuteResponses ==
    {[kind |-> "exc", message |-> "refused"]}
        \cup {[kind |-> "http", status |-> 200, body |-> b] : b \in CommandResultBodies}
        \cup {[kind |-> "http", status |-> 200, body |-> [text |-> "not a CommandResult"]]}
        \cup {[kind |-> "http", status |-> 500, body |-> [text |-> "boom"]]}

\* f"Agent returned status {resp.status}: {error_text}"
StatusError(status, error_text) ==
    CASE status = 500 /\ error_text = "boom" -> "Agent returned status 500: boom"
      [] OTHER -> "Agent returned status ?"

\* str(e) of what the try block of execute_command catches
ExceptionMessage(resp) ==
    IF resp.kind = "exc" THEN resp.message ELSE "validation error"

\* f"Failed to communicate with agent: {str(e)}"
CommunicationError(message) ==
    CASE message = "refused" -> "Failed to communicate with agent: refused"
      [] message = "validation error" ->
             "Failed to communicate with agent: validation error"
      [] OTHER -> "Failed to communicate with agent: "

\* the failure result that names no agent
Failure_unnamed(error, user_input, agent_id) ==
    [success |-> FALSE, error |-> error, execution_time_ms |-> 0,
     command |-> user_input, agent_id |-> "none"]

\* CommandResult(success=False, error=..., execution_time_ms=0, command=user_input, agent_id=...)
Failure(error, user_input, agent_id) ==
    [success |-> FALSE, error |-> error, execution_time_ms |-> 0,
     command |-> user_input, agent_id |-> agent_id]

\* the no-agent result naming the first agent id instead of "none"
NoAgentResult_named(user_input) == Failure("No healthy agents available", user_input, "a1")

\* the result of execute_command when select_agent returns None
NoAgentResult(user_input) == Failure("No healthy agents available", user_input, "none")

\* the status of the reply not looked at
Succeeded_anystatus(resp) == resp.kind = "http"

\* resp.status == 200 and CommandResult(**result_data) accepts the body
Succeeded(resp) ==
    resp.kind = "http" /\ resp.status = 200 /\ resp.body \in CommandResultBodies

\* the status line of a reply; 0 stands for a transport error
StatusOf(resp) == IF resp.kind = "http" THEN resp.status ELSE 0

NoCall ==
    [pc |-> "idle", user_input |-> None, parsed |-> [json |-> None],
     agent |-> [id |-> None], sent |-> 0, status |-> 0,
     result |-> [none |-> TRUE]]

VARIABLES
    agents,             \* self.agents, in insertion order
    command_history,    \* self.command_history
    now,                \* datetime.now()
    ex,                 \* the execute_command call in progress
    last_health_check,  \* self._last_health_check
    lock_holder,        \* self._health_check_lock: the call holding it, 0 when free
    lock_waiters,       \* self._health_check_lock: the calls waiting for it, oldest first
    hc,                 \* the health_check_agents calls
    disc,               \* the discover_agents run in progress
    register_log,       \* what the latest register_agent call wrote to the log
    loops,              \* the periodic background tasks of main and the web interface
    bcast,              \* the discover_agents_broadcast call in progress
    ag                  \* an agent process: its /execute route and its discovery listener

vars == <<agents, command_history, now, ex, last_health_check, lock_holder,
          lock_waiters, hc, disc, register_log, loops, bcast, ag>>

health_vars == <<last_health_check, lock_holder, lock_waiters, hc>>

Calls == 1..MaxCalls

NoSweep ==
    [pc |-> "idle", force |-> FALSE, invoked_at |-> 0, swept |-> FALSE,
     snap |-> <<>>, idx |-> 0, attempt |-> 0, passed |-> FALSE,
     resp |-> [kind |-> None]]

\* semaphore is the value of the asyncio.Semaphore local to the run
NoDiscovery ==
    [pc |-> "idle", arg |-> [given |-> FALSE, hosts |-> <<>>],
     env |-> [env_hosts |-> None, network_name |-> None, use_broadcast_env |-> None,
              scan_network_env |-> None, network_configs |-> <<>>,
              use_broadcast_config |-> TRUE, scan_network_config |-> FALSE,
              manual_hosts |-> <<>>, broadcast_hosts |-> <<>>, local_ip |-> [ok |-> FALSE]],
     env_hosts |-> None,
     manual_hosts |-> <<>>, broadcast_hosts |-> <<>>,
     host_range |-> <<>>, broadcast |-> FALSE, scan |-> FALSE, task |-> <<>>,
     semaphore |-> 0]

\* an agent process before Agent() is constructed; exec is the latest /execute
\* request (the command received, the commands handed to subprocess.run for it,
\* the HTTP status and the CommandResult of the reply), listener is the thread
\* of the discovery listener (the latest datagram received, the datagrams sent
\* in answer to it, whether a pass of its loop has logged an error)
NoAgent ==
    [pc |-> "down",
     info |-> [id |-> None, name |-> None, os_type |-> None, port |-> 0],
     exec |-> [command |-> <<>>, ran |-> <<>>, status |-> 0, result |-> [none |-> TRUE]],
     listener |-> [pc |-> "idle", received |-> [none |-> TRUE], sent |-> <<>>,
                   logged |-> FALSE]]

\* discovered_hosts is the list the call returns; received is what recvfrom
\* handed over so far; ended says what ended the listening
NoBroadcast ==
    [pc |-> "idle", elapsed |-> 0, received |-> <<>>, discovered_hosts |-> <<>>,
     ended |-> None]

\* the background tasks: health_monitor and discovery_monitor of main,
\* start_periodic_updates of the web interface
Loops == {"health_monitor", "discovery_monitor", "periodic_updates"}

\* the seconds each task passes to asyncio.sleep between two cycles
Period(l) ==
    CASE l = "health_monitor" -> HealthPeriod
      [] l = "discovery_monitor" -> DiscoveryPeriod
      [] l = "periodic_updates" -> WebPeriod

\* a task as gather starts it: health_monitor enters its first cycle at once,
\* the two others sleep first; cycle counts the cycles started, failed says
\* whether the latest cycle that ended raised
InitialLoop(l) ==
    IF l = "health_monitor"
    THEN [pc |-> "cycle", cycle |-> 1, failed |-> FALSE, slept |-> 0]
    ELSE [pc |-> "sleep", cycle |-> 0, failed |-> FALSE, slept |-> Period(l)]

Init ==
    /\ agents = <<>>
    /\ command_history = <<>>
    /\ now = 0
    /\ ex = NoCall
    /\ last_health_check = DatetimeMin
    /\ lock_holder = 0
    /\ lock_waiters = <<>>
    /\ hc = [c \in Calls |-> NoSweep]
    /\ disc = NoDiscovery
    /\ register_log = [replaced |-> FALSE, id |-> None, total |-> 0]
    /\ loops = [l \in Loops |-> InitialLoop(l)]
    /\ bcast = NoBroadcast
    /\ ag = NoAgent

(***************************************************************************)
(* register_agent                                                          *)
(***************************************************************************)
RegisterAgent(agent_info) ==
    /\ agents' = register_agent(agents, agent_info)
    /\ register_log' = RegisterLog(agents, agent_info)
    /\ UNCHANGED <<command_history, now, ex, health_vars, disc, loops, bcast, ag>>

(***************************************************************************)
(* execute_command, up to the suspension in session.post                   *)
(***************************************************************************)
ExecStart(user_input, tr) ==
    /\ ex.pc \in {"idle", "returned", "raised"}
    /\ Len(command_history) < MaxHistory
    /\ LET parsed == parse_command(user_input, tr)
           sel == select_agent(agents, parsed.value)
           call == [NoCall EXCEPT !.user_input = user_input]
       IN  ex' =
             IF parsed.kind = "raise"
             THEN [call EXCEPT !.pc = "raised", !.result = [exc |-> parsed.exc]]
             ELSE IF sel.kind = "raise"
             THEN [call EXCEPT !.pc = "raised", !.result = [exc |-> sel.exc]]
             ELSE IF sel.kind = "none"
             THEN [call EXCEPT !.pc = "returned", !.result = NoAgentResult(user_input)]
             ELSE IF "command" \notin DOMAIN parsed.value.obj
             THEN [call EXCEPT !.pc = "raised", !.result = [exc |-> "KeyError"]]
             ELSE [call EXCEPT !.pc = "dispatch", !.parsed = parsed.value,
                               !.agent = sel.agent, !.sent = 1]
    /\ UNCHANGED <<agents, command_history, now, health_vars, disc, register_log, loops, bcast, ag>>

(***************************************************************************)
(* execute_command, from the reply of the agent to the return              *)
(***************************************************************************)
ExecResponse(resp) ==
    /\ ex.pc = "dispatch"
    /\ LET done == [NoCall EXCEPT !.pc = "returned", !.user_input = ex.user_input,
                                  !.sent = ex.sent, !.status = StatusOf(resp)]
       IN  IF Succeeded(resp)
           THEN /\ command_history' =
                       Append(command_history,
                              [timestamp |-> now, user_input |-> ex.user_input,
                               parsed_command |-> ex.parsed,
                               agent_used |-> ex.agent.name, result |-> resp.body])
                /\ ex' = [done EXCEPT !.result = resp.body]
           ELSE /\ UNCHANGED command_history
                /\ ex' = [done EXCEPT !.result =
                             IF resp.kind = "http" /\ resp.status # 200
                             THEN Failure(StatusError(resp.status, resp.body.text),
                                          ex.user_input, ex.agent.id)
                             ELSE Failure(CommunicationError(ExceptionMessage(resp)),
                                          ex.user_input, ex.agent.id)]
    /\ UNCHANGED <<agents, now, health_vars, disc, register_log, loops, bcast, ag>>

\* time passes; a caller that was handed the lock runs before the clock moves
Tick ==
    /\ now + TickStep <= MaxTime
    /\ ~(lock_holder = 0 /\ lock_waiters # <<>>)
    /\ now' = now + TickStep
    /\ UNCHANGED <<agents, command_history, ex, health_vars, disc, register_log, loops, bcast, ag>>

(***************************************************************************)
(* health_check_agents                                                     *)
(***************************************************************************)
HealthResponses ==
    {[kind |-> "exc"],
     [kind |-> "http", status |-> 200, body |-> "object"],
     [kind |-> "http", status |-> 200, body |-> "array"],
     [kind |-> "http", status |-> 503, body |-> "object"]}

\* list(self.agents.items()): the ids and the addresses of the objects held
Snapshot(dir) ==
    [i \in 1..Len(dir) |-> [id |-> dir[i].id, host |-> dir[i].host, port |-> dir[i].port]]

\* a lock that never makes a caller wait
LockFree_always == TRUE

\* async with self._health_check_lock: the lock is handed over in arrival order
LockFree == lock_holder = 0 /\ lock_waiters = <<>>

\* the body of the with block, up to the first request of the sweep
EnterSweep(c, force, invoked_at) ==
    LET call == [NoSweep EXCEPT !.force = force, !.invoked_at = invoked_at]
    IN  IF ~force /\ now - last_health_check < RateLimitSeconds
        THEN /\ hc' = [hc EXCEPT ![c] = [call EXCEPT !.pc = "done"]]
             /\ lock_holder' = 0
             /\ UNCHANGED last_health_check
        ELSE /\ last_health_check' = now
             /\ IF agents = <<>>
                THEN /\ hc' = [hc EXCEPT ![c] = [call EXCEPT !.pc = "done", !.swept = TRUE]]
                     /\ lock_holder' = 0
                ELSE /\ hc' = [hc EXCEPT ![c] =
                                  [call EXCEPT !.pc = "probe", !.swept = TRUE,
                                               !.snap = Snapshot(agents), !.idx = 1]]
                     /\ lock_holder' = c

HealthCall(c, force) ==
    /\ hc[c].pc = "idle"
    /\ IF LockFree
       THEN /\ EnterSweep(c, force, now)
            /\ UNCHANGED lock_waiters
       ELSE /\ hc' = [hc EXCEPT ![c] = [NoSweep EXCEPT !.pc = "wait", !.force = force,
                                                      !.invoked_at = now]]
            /\ lock_waiters' = Append(lock_waiters, c)
            /\ UNCHANGED <<last_health_check, lock_holder>>
    /\ UNCHANGED <<agents, command_history, now, ex, disc, register_log, loops, bcast, ag>>

HealthAcquire(c) ==
    /\ hc[c].pc = "wait"
    /\ lock_holder = 0
    /\ lock_waiters # <<>>
    /\ Head(lock_waiters) = c
    /\ lock_waiters' = Tail(lock_waiters)
    /\ EnterSweep(c, hc[c].force, hc[c].invoked_at)
    /\ UNCHANGED <<agents, command_history, now, ex, disc, register_log, loops, bcast, ag>>

\* a sweep that drops the agent it finds dead
SetHealth_prune(dir, id, healthy) ==
    SelectSeq(dir, LAMBDA a : a.id # id \/ healthy)

\* self.agents[agent_id].is_healthy = False, if the id is still registered
SetHealth(dir, id, healthy) ==
    IF id \in Ids(dir)
    THEN [dir EXCEPT ![IndexOf(dir, id)].is_healthy = healthy]
    ELSE dir

\* a successful probe that leaves last_seen as it was
MarkSeen_norefresh(dir, id, t) ==
    IF id \in Ids(dir)
    THEN [dir EXCEPT ![IndexOf(dir, id)].is_healthy = TRUE]
    ELSE dir

\* is_healthy = True; last_seen = datetime.now()
MarkSeen(dir, id, t) ==
    IF id \in Ids(dir)
    THEN [dir EXCEPT ![IndexOf(dir, id)].is_healthy = TRUE,
                     ![IndexOf(dir, id)].last_seen = t,
                     ![IndexOf(dir, id)].tz = FALSE]
    ELSE dir

\* a sweep that keeps the lock when the TypeError ends it
FinishAgent_held(c, h, dir) ==
    LET id == h.snap[h.idx].id
        dir2 == IF h.passed THEN dir ELSE SetHealth(dir, id, FALSE)
        ended == [NoSweep EXCEPT !.force = h.force, !.invoked_at = h.invoked_at,
                                 !.swept = TRUE]
    IN  /\ agents' = dir2
        /\ IF id \in Ids(dir2) /\ Lookup(dir2, id).tz
           THEN /\ hc' = [hc EXCEPT ![c] = [ended EXCEPT !.pc = "raised"]]
                /\ UNCHANGED lock_holder
           ELSE IF h.idx < Len(h.snap)
           THEN /\ hc' = [hc EXCEPT ![c] = [h EXCEPT !.idx = h.idx + 1, !.attempt = 0,
                                                     !.passed = FALSE]]
                /\ UNCHANGED lock_holder
           ELSE /\ hc' = [hc EXCEPT ![c] = [ended EXCEPT !.pc = "done"]]
                /\ lock_holder' = 0

\* the statements after the retry loop, then the next agent of the snapshot
\* or the end of the with block; datetime.now() - last_seen raises TypeError
\* when last_seen carries a UTC offset
FinishAgent(c, h, dir) ==
    LET id == h.snap[h.idx].id
        dir2 == IF h.passed THEN dir ELSE SetHealth(dir, id, FALSE)
        ended == [NoSweep EXCEPT !.force = h.force, !.invoked_at = h.invoked_at,
                                 !.swept = TRUE]
    IN  /\ agents' = dir2
        /\ IF id \in Ids(dir2) /\ Lookup(dir2, id).tz
           THEN /\ hc' = [hc EXCEPT ![c] = [ended EXCEPT !.pc = "raised"]]
                /\ lock_holder' = 0
           ELSE IF h.idx < Len(h.snap)
           THEN /\ hc' = [hc EXCEPT ![c] = [h EXCEPT !.idx = h.idx + 1, !.attempt = 0,
                                                     !.passed = FALSE]]
                /\ UNCHANGED lock_holder
           ELSE /\ hc' = [hc EXCEPT ![c] = [ended EXCEPT !.pc = "done"]]
                /\ lock_holder' = 0

\* session.get(url, timeout=5): the reply to one request of the retry loop
HealthReply(c, resp) ==
    /\ hc[c].pc = "probe"
    /\ hc' = [hc EXCEPT ![c].pc = "reply", ![c].resp = resp]
    /\ UNCHANGED <<agents, command_history, now, ex, last_health_check, lock_holder,
                   lock_waiters, disc, register_log, loops, bcast, ag>>

\* the rest of one pass of the retry loop, from await resp.json() on
HealthProcess(c) ==
    /\ hc[c].pc = "reply"
    /\ LET resp == hc[c].resp
           h == [hc[c] EXCEPT !.pc = "probe", !.resp = NoSweep.resp]
           id == h.snap[h.idx].id
           ok == resp.kind = "http" /\ resp.status = 200 /\ resp.body = "object"
           raised == resp.kind = "exc" \/ (resp.status = 200 /\ resp.body # "object")
           last == h.attempt = MaxAttempts - 1
       IN  IF ok
           THEN FinishAgent(c, [h EXCEPT !.passed = TRUE], MarkSeen(agents, id, now))
           ELSE IF last
           THEN FinishAgent(c, h, agents)
           ELSE /\ hc' = [hc EXCEPT ![c] =
                             [h EXCEPT !.attempt = h.attempt + 1,
                                       !.pc = IF raised THEN "sleep" ELSE "probe"]]
                /\ UNCHANGED <<agents, lock_holder>>
    /\ UNCHANGED <<command_history, now, ex, last_health_check, lock_waiters, disc,
                   register_log, loops, bcast, ag>>

\* await asyncio.sleep(1)
HealthWake(c) ==
    /\ hc[c].pc = "sleep"
    /\ hc' = [hc EXCEPT ![c].pc = "probe"]
    /\ UNCHANGED <<agents, command_history, now, ex, last_health_check, lock_holder,
                   lock_waiters, disc, register_log, loops, bcast, ag>>

\* the caller gets control back and may call again
HealthReturn(c) ==
    /\ hc[c].pc \in {"done", "raised"}
    /\ hc' = [hc EXCEPT ![c] = NoSweep]
    /\ UNCHANGED <<agents, command_history, now, ex, last_health_check, lock_holder,
                   lock_waiters, disc, register_log, loops, bcast, ag>>

\* the registrations and replies of the rate-limit specification
RateAgentInfo ==
    {d \in NewAgentInfo :
        d.id = "a1" /\ d.os_type = "Linux" /\ d.host = "h1" /\ d.is_healthy /\ ~d.tz}

RateResponses == {r \in HealthResponses : r.kind = "exc" \/ r.body = "object"}

NextHealth ==
    \/ \E agent_info \in RateAgentInfo : RegisterAgent(agent_info)
    \/ \E c \in Calls, force \in BOOLEAN : HealthCall(c, force)
    \/ \E c \in Calls : HealthAcquire(c)
    \/ \E c \in Calls, resp \in RateResponses : HealthReply(c, resp)
    \/ \E c \in Calls : HealthProcess(c)
    \/ \E c \in Calls : HealthWake(c)
    \/ \E c \in Calls : HealthReturn(c)
    \/ Tick

SpecHealth == Init /\ [][NextHealth]_vars

\* no last_seen of the directory carries a UTC offset
Unaware(dir) == \A i \in 1..Len(dir) : ~dir[i].tz

\* the registrations of the sweep specification
SweepAgentInfo ==
    {d \in NewAgentInfo :
        /\ d.os_type = "Linux"
        /\ d.is_healthy
        /\ d.id = "a2" => d.host = "h2"
        /\ d.tz => d.id = "a2"}

NextSweep ==
    \/ \E agent_info \in SweepAgentInfo : RegisterAgent(agent_info)
    \/ \E force \in BOOLEAN : HealthCall(1, force)
    \/ \E resp \in HealthResponses : HealthReply(1, resp)
    \/ HealthProcess(1)
    \/ HealthWake(1)
    \/ HealthReturn(1)
    \/ Tick

SpecSweep == Init /\ [][NextSweep]_vars

\* registrations while a sweep is suspended on a request or on its sleep: the
\* directory holds descriptors with naive timestamps when a sweep starts, and
\* any descriptor may be registered while it runs
Suspended(c) == hc[c].pc \in {"probe", "sleep"}

NextSnapshot ==
    \/ \E agent_info \in SweepAgentInfo :
          /\ agent_info.tz => Suspended(1)
          /\ hc[1].pc = "idle" => Unaware(agents)
          /\ RegisterAgent(agent_info)
    \/ /\ Unaware(agents)
       /\ HealthCall(1, TRUE)
    \/ \E resp \in RateResponses : HealthReply(1, resp)
    \/ HealthProcess(1)
    \/ HealthWake(1)
    \/ HealthReturn(1)
    \/ Tick

SpecSnapshot == Init /\ [][NextSnapshot]_vars

(***************************************************************************)
(* discover_agents: the resolution of the candidates                       *)
(***************************************************************************)
\* what one call finds in os.environ, in self.discovery_config and on the
\* network: AGENT_DISCOVERY_HOSTS, AGENT_NETWORK_CONFIG, AGENT_USE_BROADCAST,
\* AGENT_SCAN_NETWORK, network_configs, use_broadcast, scan_network,
\* manual_hosts, the answers to a broadcast and the address that
\* socket.gethostbyname gives for the machine (ok is FALSE when the lookup
\* raises, net holds the first three octets otherwise)
Environments ==
    [env_hosts : {None, "", "h1:5001, h2:5001"},
     network_name : {None, "lab"},
     use_broadcast_env : {None, "false"},
     scan_network_env : {None, "TRUE"},
     network_configs : {<<>>, <<[name |-> "lab", hosts |-> <<>>]>>,
                        <<[name |-> "home", hosts |-> <<"h1:5001">>]>>,
                        <<[name |-> "home", hosts |-> <<"h1:5001">>],
                          [name |-> "lab", hosts |-> <<"h2:5001">>]>>},
     use_broadcast_config : {TRUE},
     scan_network_config : BOOLEAN,
     manual_hosts : {<<>>, <<"h1:5001">>},
     broadcast_hosts : {<<>>, <<"h1:5001", "h2:5001">>},
     local_ip : {[ok |-> FALSE]}]

\* an environment with nothing set, the default configuration, a silent network
DefaultEnvironment ==
    [env_hosts |-> None, network_name |-> None, use_broadcast_env |-> None,
     scan_network_env |-> None, network_configs |-> <<>>,
     use_broadcast_config |-> TRUE, scan_network_config |-> FALSE,
     manual_hosts |-> <<>>, broadcast_hosts |-> <<>>, local_ip |-> [ok |-> FALSE]]

\* the host_range parameter: given is FALSE for the default None
HostRangeArgs(lists) ==
    {[given |-> FALSE, hosts |-> <<>>]} \cup {[given |-> TRUE, hosts |-> l] : l \in lists}

\* the entries of AGENT_DISCOVERY_HOSTS kept with the blanks around them
SplitEnv_unstripped(env_hosts) ==
    CASE env_hosts = "h1:5001, h2:5001" -> <<"h1:5001", " h2:5001">>
      [] OTHER -> <<env_hosts>>

\* [host.strip() for host in env_hosts.split(',')]
SplitEnv(env_hosts) ==
    CASE env_hosts = "h1:5001, h2:5001" -> <<"h1:5001", "h2:5001">>
      [] OTHER -> <<env_hosts>>

\* str(env if env is not None else config).lower() == 'true'
Setting(env_value, config_value) ==
    IF env_value = None THEN config_value
    ELSE env_value \in {"true", "TRUE", "True"}

\* for bcast_host in broadcast_hosts: if bcast_host not in host_range: append
RECURSIVE AppendNew(_, _)
AppendNew(host_range, hosts) ==
    IF hosts = <<>> THEN host_range
    ELSE IF \E i \in 1..Len(host_range) : host_range[i] = Head(hosts)
         THEN AppendNew(host_range, Tail(hosts))
         ELSE AppendNew(Append(host_range, Head(hosts)), Tail(hosts))

\* ipaddress.IPv4Network(f"{local_ip}/24", strict=False).hosts(): the
\* addresses .1 to .254 of the network of local_ip
NetworkHosts(local_ip) ==
    [i \in 1..LastHost |-> local_ip.net \o "." \o ToString(i)]

\* the addresses kept were the loop to break on i > 20
FirstHosts_inclusive(hosts) == SubSeq(hosts, 1, ScanLimit + 1)

\* the loop over enumerate(network.hosts()) of _get_local_network_range
FirstHosts(hosts) ==
    SubSeq(hosts, 1, IF Len(hosts) < ScanLimit THEN Len(hosts) ELSE ScanLimit)

\* _get_local_network_range()
get_local_network_range(local_ip) ==
    IF ~local_ip.ok THEN <<"127.0.0.1">>
    ELSE FirstHosts(NetworkHosts(local_ip))

\* host_range.extend([f"{ip}:5001", f"{ip}:5002", f"{ip}:5003"]) for each ip
RECURSIVE ScanTargets(_)
ScanTargets(network_ips) ==
    IF network_ips = <<>> THEN <<>>
    ELSE <<Head(network_ips) \o ":5001", Head(network_ips) \o ":5002",
           Head(network_ips) \o ":5003">> \o ScanTargets(Tail(network_ips))

\* a default list of the two localhost candidates only
LocalhostDefaults_nameonly == <<"localhost:5001", "localhost:5002">>

\* the default localhost targets
LocalhostDefaults ==
    <<"localhost:5001", "localhost:5002", "127.0.0.1:5001", "127.0.0.1:5002">>

\* every network configuration, whatever its name
NamedConfig_any(env) ==
    {env.network_configs[i] : i \in 1..Len(env.network_configs)}

\* the hosts of the named network configuration, when there is one
NamedConfig(env) ==
    {c \in {env.network_configs[i] : i \in 1..Len(env.network_configs)} :
        c.name = env.network_name}

\* "if not host_range": a list was passed in and it is not empty
Explicit(arg) == arg.given /\ arg.hosts # <<>>

\* the locals manual_hosts and broadcast_hosts, set on the path that merges
\* the manual hosts with the answers to the broadcast
MergeInputs(arg, env) ==
    IF \/ Explicit(arg)
       \/ env.env_hosts \notin {None, ""}
       \/ env.network_name # None /\ NamedConfig(env) # {}
    THEN [manual_hosts |-> <<>>, broadcast_hosts |-> <<>>]
    ELSE [manual_hosts |-> env.manual_hosts,
          broadcast_hosts |-> IF Setting(env.use_broadcast_env, env.use_broadcast_config)
                              THEN env.broadcast_hosts ELSE <<>>]

\* the first block of discover_agents: the candidates of the run, whether a
\* broadcast was sent and whether the local network was enumerated
ResolveHosts(arg, env) ==
    IF Explicit(arg)
    THEN [host_range |-> arg.hosts, broadcast |-> FALSE, scan |-> FALSE]
    ELSE IF env.env_hosts \notin {None, ""}
    THEN [host_range |-> SplitEnv(env.env_hosts), broadcast |-> FALSE, scan |-> FALSE]
    ELSE IF env.network_name # None /\ NamedConfig(env) # {}
    THEN [host_range |-> (CHOOSE c \in NamedConfig(env) : TRUE).hosts,
          broadcast |-> FALSE, scan |-> FALSE]
    ELSE LET use_broadcast == Setting(env.use_broadcast_env, env.use_broadcast_config)
             scan_network == Setting(env.scan_network_env, env.scan_network_config)
             found == MergeInputs(arg, env).broadcast_hosts
             host_range == AppendNew(env.manual_hosts, found)
         IN  IF host_range # <<>>
             THEN [host_range |-> host_range, broadcast |-> use_broadcast,
                   scan |-> FALSE]
             ELSE IF scan_network
             THEN [host_range |-> ScanTargets(get_local_network_range(env.local_ip)),
                   broadcast |-> use_broadcast, scan |-> TRUE]
             ELSE [host_range |-> LocalhostDefaults, broadcast |-> use_broadcast,
                   scan |-> FALSE]

(***************************************************************************)
(* discover_agents: the verification stage                                 *)
(***************************************************************************)
\* host_port.split(':') and int() on the candidates of the model; a candidate
\* without a port does not unpack into two values
SplitHostPort(host_port) ==
    CASE host_port = "h1:5001" -> [ok |-> TRUE, host |-> "h1", port |-> 5001]
      [] host_port = "h2:5001" -> [ok |-> TRUE, host |-> "h2", port |-> 5001]
      [] host_port = "h1:5002" -> [ok |-> TRUE, host |-> "h1", port |-> 5002]
      [] host_port = "h1:5003" -> [ok |-> TRUE, host |-> "h1", port |-> 5003]
      [] host_port = "localhost:5001" -> [ok |-> TRUE, host |-> "localhost", port |-> 5001]
      [] host_port = "localhost:5002" -> [ok |-> TRUE, host |-> "localhost", port |-> 5002]
      [] host_port = "127.0.0.1:5001" -> [ok |-> TRUE, host |-> "127.0.0.1", port |-> 5001]
      [] host_port = "127.0.0.1:5002" -> [ok |-> TRUE, host |-> "127.0.0.1", port |-> 5002]
      [] host_port = "127.0.0.1:5003" -> [ok |-> TRUE, host |-> "127.0.0.1", port |-> 5003]
      [] OTHER -> [ok |-> FALSE]

\* bodies of GET /capabilities that AgentInfo(**agent_data) accepts
CapabilityBodies ==
    [id : AgentIds, name : Names, os_type : OsTypes, host : {"10.9.9.9"},
     port : {9999}, last_seen : {0}, tz : BOOLEAN, is_healthy : BOOLEAN]

\* a JSON object that AgentInfo(**agent_data) rejects: its id is null
InvalidBody ==
    [id |-> None, name |-> "n1", os_type |-> "Linux", host |-> "10.9.9.9",
     port |-> 9999, last_seen |-> 0, tz |-> FALSE, is_healthy |-> TRUE]

CapabilityResponses(bodies) ==
    {[kind |-> "exc"], [kind |-> "http", status |-> 404, body |-> InvalidBody],
     [kind |-> "http", status |-> 200, body |-> InvalidBody]}
        \cup {[kind |-> "http", status |-> 200, body |-> b] : b \in bodies}

\* the descriptor registered as the agent reports itself
OverrideAddress_selfreported(agent_data, addr) == agent_data

\* agent_data['host'] = discovery_host; agent_data['port'] = int(discovery_port)
OverrideAddress(agent_data, addr) ==
    [agent_data EXCEPT !.host = addr.host, !.port = addr.port]

\* a status 200 taken as success without AgentInfo validating the body
ProbeSucceeded_unvalidated(host_port, resp) ==
    resp.kind = "http" /\ resp.status = 200 /\ SplitHostPort(host_port).ok

\* the try block of check_host reaches "return True"
ProbeSucceeded(host_port, resp) ==
    /\ resp.kind = "http"
    /\ resp.status = 200
    /\ SplitHostPort(host_port).ok
    /\ resp.body \in CapabilityBodies

\* check_host(host_port) given the reply to its request: the directory it
\* leaves and the value it returns
check_host(dir, host_port, resp) ==
    IF ProbeSucceeded(host_port, resp)
    THEN [agents |-> register_agent(dir, OverrideAddress(resp.body, SplitHostPort(host_port))),
          result |-> TRUE]
    ELSE [agents |-> dir, result |-> FALSE]

\* a host list of NumCandidates entries, more than the semaphore admits at once
ManyHosts == [i \in 1..NumCandidates |-> IF i % 2 = 1 THEN "h1:5001" ELSE "h2:5001"]

RECURSIVE CountProbes(_)
CountProbes(task) ==
    IF task = <<>> THEN 0
    ELSE (IF Head(task) = "probe" THEN 1 ELSE 0) + CountProbes(Tail(task))

\* discover_agents(host_range), up to asyncio.gather, or to the return when
\* there is no candidate
DiscoverStart(arg, env) ==
    /\ disc.pc = "idle"
    /\ LET r == ResolveHosts(arg, env)
       IN  disc' = [pc |-> IF r.host_range = <<>> THEN "nohosts" ELSE "gather",
                    arg |-> arg, env |-> env, env_hosts |-> env.env_hosts,
                    manual_hosts |-> MergeInputs(arg, env).manual_hosts,
                    broadcast_hosts |-> MergeInputs(arg, env).broadcast_hosts,
                    host_range |-> r.host_range,
                    broadcast |-> r.broadcast, scan |-> r.scan,
                    task |-> [i \in 1..Len(r.host_range) |-> "wait"],
                    semaphore |-> SemaphorePermits]
    /\ UNCHANGED <<agents, command_history, now, ex, health_vars, register_log, loops, bcast, ag>>

\* acquire that does not look at the number of permits left
CanAcquire_uncounted(i) == \A j \in 1..(i - 1) : disc.task[j] # "wait"

\* asyncio.Semaphore.acquire: a permit is free and no earlier task is waiting
CanAcquire(i) ==
    /\ disc.semaphore > 0
    /\ \A j \in 1..(i - 1) : disc.task[j] # "wait"

\* check_host: async with semaphore, up to the request
CheckHostAcquire(i) ==
    /\ disc.pc = "gather"
    /\ i \in 1..Len(disc.task)
    /\ disc.task[i] = "wait"
    /\ CanAcquire(i)
    /\ disc' = [disc EXCEPT !.task[i] = "probe", !.semaphore = disc.semaphore - 1]
    /\ UNCHANGED <<agents, command_history, now, ex, health_vars, register_log, loops, bcast, ag>>

\* a check_host that asks again when its request failed
CheckHostReply_retry(i, resp) ==
    /\ disc.pc = "gather"
    /\ i \in 1..Len(disc.task)
    /\ disc.task[i] = "probe"
    /\ LET out == check_host(agents, disc.host_range[i], resp)
       IN  IF out.result
           THEN /\ agents' = out.agents
                /\ register_log' =
                       RegisterLog(agents, OverrideAddress(resp.body,
                                               SplitHostPort(disc.host_range[i])))
                /\ disc' = [disc EXCEPT !.task[i] = "done",
                                        !.semaphore = disc.semaphore + 1]
           ELSE /\ UNCHANGED <<agents, register_log>>
                /\ disc' = [disc EXCEPT !.task[i] = "wait",
                                        !.semaphore = disc.semaphore + 1]
    /\ UNCHANGED <<command_history, now, ex, health_vars, loops, bcast, ag>>

\* check_host: from the reply to the release of the permit
CheckHostReply(i, resp) ==
    /\ disc.pc = "gather"
    /\ i \in 1..Len(disc.task)
    /\ disc.task[i] = "probe"
    /\ LET out == check_host(agents, disc.host_range[i], resp)
       IN  IF out.result
           THEN /\ agents' = out.agents
                /\ register_log' =
                       RegisterLog(agents, OverrideAddress(resp.body,
                                               SplitHostPort(disc.host_range[i])))
           ELSE UNCHANGED <<agents, register_log>>
    /\ disc' = [disc EXCEPT !.task[i] = "done", !.semaphore = disc.semaphore + 1]
    /\ UNCHANGED <<command_history, now, ex, health_vars, loops, bcast, ag>>

\* asyncio.gather returns and discover_agents with it, or discover_agents
\* returns for want of candidates
DiscoverReturn ==
    /\ \/ disc.pc = "nohosts"
       \/ disc.pc = "gather" /\ \A i \in 1..Len(disc.task) : disc.task[i] = "done"
    /\ disc' = NoDiscovery
    /\ UNCHANGED <<agents, command_history, now, ex, health_vars, register_log, loops, bcast, ag>>

\* the host lists and replies of the discovery specification
DiscHostRanges == {ManyHosts, <<"h2", "h1:5001">>}

DiscBodies ==
    {b \in CapabilityBodies : b.id = "a1" /\ b.os_type = "Linux" /\ b.is_healthy /\ ~b.tz}

NextDisc ==
    \/ \E host_range \in DiscHostRanges :
          DiscoverStart([given |-> TRUE, hosts |-> host_range], DefaultEnvironment)
    \/ \E i \in 1..NumCandidates : CheckHostAcquire(i)
    \/ \E i \in 1..NumCandidates, resp \in CapabilityResponses(DiscBodies) :
          CheckHostReply(i, resp)
    \/ DiscoverReturn

SpecDisc == Init /\ [][NextDisc]_vars

\* the calls and replies of the resolution specification
ResolveArgs == HostRangeArgs({<<>>, <<"h2:5001">>})

ResolveResponses ==
    {[kind |-> "exc"]}
        \cup {[kind |-> "http", status |-> 200, body |-> b] :
                 b \in DiscBodies}

NextResolve ==
    \/ \E arg \in ResolveArgs, env \in Environments : DiscoverStart(arg, env)
    \/ \E i \in 1..Len(LocalhostDefaults) : CheckHostAcquire(i)
    \/ \E i \in 1..Len(LocalhostDefaults), resp \in ResolveResponses :
          CheckHostReply(i, resp)
    \/ DiscoverReturn

SpecResolve == Init /\ [][NextResolve]_vars

\* the calls of the merge specification: no host list passed, nothing set in
\* the environment but AGENT_USE_BROADCAST, every manual host list and every
\* broadcast result of up to MaxHosts entries
HostLists == UNION {[1..n -> {"h1:5001", "h2:5001"}] : n \in 0..MaxHosts}

MergeEnvironments ==
    {[DefaultEnvironment EXCEPT !.use_broadcast_env = u, !.manual_hosts = m,
                                !.broadcast_hosts = b] :
        u \in {None, "false"}, m \in HostLists, b \in HostLists}

NextMerge ==
    \/ \E env \in MergeEnvironments :
          DiscoverStart([given |-> FALSE, hosts |-> <<>>], env)
    \/ \E i \in 1..(2 * MaxHosts) : CheckHostAcquire(i)
    \/ \E i \in 1..(2 * MaxHosts) : CheckHostReply(i, [kind |-> "exc"])
    \/ DiscoverReturn

SpecMerge == Init /\ [][NextMerge]_vars

\* the calls of the scan specification: no host list passed, every setting
\* of AGENT_SCAN_NETWORK and scan_network, with and without AGENT_DISCOVERY_HOSTS,
\* manual hosts and broadcast answers, the lookup of the own address failing
\* or giving an address of the network 10.0.0.0/24
ScanEnvironments ==
    {[DefaultEnvironment EXCEPT !.env_hosts = e, !.use_broadcast_env = u,
                                !.scan_network_env = s, !.scan_network_config = c,
                                !.manual_hosts = m, !.broadcast_hosts = b,
                                !.local_ip = ip] :
        e \in {None, "h1:5001, h2:5001"}, u \in {None, "false"},
        s \in {None, "TRUE", "false"}, c \in BOOLEAN,
        m \in {<<>>, <<"h1:5001">>}, b \in {<<>>, <<"h2:5001">>},
        ip \in {[ok |-> FALSE], [ok |-> TRUE, net |-> "10.0.0"]}}

\* every probe of the scan specification fails, and the probes end in the
\* order of the candidates
NextScan ==
    \/ \E env \in ScanEnvironments :
          DiscoverStart([given |-> FALSE, hosts |-> <<>>], env)
    \/ \E i \in 1..(3 * ScanLimit) : CheckHostAcquire(i)
    \/ \E i \in 1..(3 * ScanLimit) :
          /\ i <= Len(disc.task)
          /\ \A j \in 1..(i - 1) : disc.task[j] = "done"
          /\ CheckHostReply(i, [kind |-> "exc"])
    \/ DiscoverReturn

SpecScan == Init /\ [][NextScan]_vars

(***************************************************************************)
(* discover_agents_broadcast                                               *)
(***************************************************************************)
\* what a datagram holds: bytes that data.decode() rejects, text that
\* json.loads rejects, a JSON array, or a JSON object
Payloads ==
    {[form |-> "bytes"], [form |-> "text"], [form |-> "array"]}
        \cup {[form |-> "object", obj |-> o] :
                 o \in [type : {"agent_response", "agent_discovery"}, port : {5002}]
                         \cup [type : {"agent_response", "agent_discovery"}]
                         \cup {[name |-> "n1"]}}

AgentResponses ==
    {w \in Payloads : w.form = "object" /\ "type" \in DOMAIN w.obj
                         /\ w.obj.type = "agent_response"}

\* a datagram as recvfrom returns it: the sender's address, the data, and the
\* seconds recvfrom waited for it
Datagrams ==
    {d \in [delay : {0, 2}, sender : Hosts, data : Payloads] :
        /\ d.sender = "h2" => d.data \in AgentResponses
        /\ d.delay = 2 => (d.data.form = "text"
                             \/ (d.data \in AgentResponses /\ "port" \notin DOMAIN d.data.obj))}

\* response.get(key, default)
ResponseGet(response, key, default) ==
    IF key \in DOMAIN response THEN response[key] ELSE default

\* f"{host}:{port}" on the hosts and ports of the model
FormatHostPort(host, port) ==
    CASE host = "h1" /\ port = 5001 -> "h1:5001"
      [] host = "h1" /\ port = 5002 -> "h1:5002"
      [] host = "h2" /\ port = 5001 -> "h2:5001"
      [] host = "h2" /\ port = 5002 -> "h2:5002"
      [] OTHER -> "?"

\* the candidate formed with the default port whatever the payload says
AgentHost_defaultport(addr, response) == FormatHostPort(addr, DefaultPort)

\* agent_port = response.get('port', 5001); agent_host = f"{addr[0]}:{agent_port}"
AgentHost(addr, response) ==
    FormatHostPort(addr, ResponseGet(response, "port", DefaultPort))

\* one pass of the body of the while loop on the datagram d: "append" with the
\* candidate, "continue" (json.JSONDecodeError, or a type that is not
\* agent_response), or "break" (any other exception: UnicodeDecodeError of
\* data.decode(), AttributeError of response.get on a value that is no dict)
ProcessDatagram(d) ==
    CASE d.data.form = "bytes" -> [kind |-> "break"]
      [] d.data.form = "text" -> [kind |-> "continue"]
      [] d.data.form = "array" -> [kind |-> "break"]
      [] OTHER ->
           IF ResponseGet(d.data.obj, "type", None) = "agent_response"
           THEN [kind |-> "append", agent_host |-> AgentHost(d.sender, d.data.obj)]
           ELSE [kind |-> "continue"]

\* the socket is set up and the discovery message sent; a failure of sendto
\* returns the empty list
BroadcastStart(sent) ==
    /\ bcast.pc = "idle"
    /\ bcast' = IF sent THEN [NoBroadcast EXCEPT !.pc = "listen"]
                ELSE [NoBroadcast EXCEPT !.pc = "returned", !.ended = "send_error"]
    /\ UNCHANGED <<agents, command_history, now, ex, health_vars, disc, register_log,
                   loops, ag>>

\* while time.time() - start_time < 3: recvfrom returns the datagram d
BroadcastRecv(d) ==
    /\ bcast.pc = "listen"
    /\ bcast.elapsed < WindowSeconds
    /\ Len(bcast.received) < MaxDatagrams
    /\ LET out == ProcessDatagram(d)
           b == [bcast EXCEPT !.elapsed = bcast.elapsed + d.delay,
                              !.received = Append(bcast.received, d)]
       IN  bcast' =
             CASE out.kind = "append" ->
                    [b EXCEPT !.discovered_hosts =
                                  Append(bcast.discovered_hosts, out.agent_host)]
               [] out.kind = "continue" -> b
               [] out.kind = "break" -> [b EXCEPT !.pc = "returned", !.ended = "error"]
    /\ UNCHANGED <<agents, command_history, now, ex, health_vars, disc, register_log,
                   loops, ag>>

\* recvfrom raises socket.timeout after 3 seconds without a datagram
BroadcastTimeout ==
    /\ bcast.pc = "listen"
    /\ bcast.elapsed < WindowSeconds
    /\ bcast' = [bcast EXCEPT !.pc = "returned", !.ended = "timeout",
                              !.elapsed = bcast.elapsed + RecvTimeout]
    /\ UNCHANGED <<agents, command_history, now, ex, health_vars, disc, register_log,
                   loops, ag>>

\* the condition of the while loop is false: the window is over
BroadcastWindowEnds ==
    /\ bcast.pc = "listen"
    /\ bcast.elapsed >= WindowSeconds
    /\ bcast' = [bcast EXCEPT !.pc = "returned", !.ended = "window"]
    /\ UNCHANGED <<agents, command_history, now, ex, health_vars, disc, register_log,
                   loops, ag>>

\* return discovered_hosts: the caller has the list and may call again
BroadcastReturn ==
    /\ bcast.pc = "returned"
    /\ bcast' = NoBroadcast
    /\ UNCHANGED <<agents, command_history, now, ex, health_vars, disc, register_log,
                   loops, ag>>

NextBroadcast ==
    \/ \E sent \in BOOLEAN : BroadcastStart(sent)
    \/ \E d \in Datagrams : BroadcastRecv(d)
    \/ BroadcastTimeout
    \/ BroadcastWindowEnds
    \/ BroadcastReturn

SpecBroadcast == Init /\ [][NextBroadcast]_vars

(***************************************************************************)
(* The periodic background tasks                                           *)
(***************************************************************************)
\* how the awaited call of a cycle may end: it returns, or it raises an
\* exception derived from Exception
CycleOutcomes == {"returned", "raised"}

\* a task whose cycle is not wrapped in try/except: the exception ends it
AfterFailure_uncaught(l) == "ended"

\* except Exception: the error is printed or logged and the task goes on to
\* its asyncio.sleep
AfterFailure(l) == "sleep"

\* the cycle of task l ends: health_check_agents or discover_agents returns
\* or raises, and the task reaches its next asyncio.sleep
LoopCycleEnds(l, outcome) ==
    /\ loops[l].pc = "cycle"
    /\ loops' = [loops EXCEPT ![l].pc = IF outcome = "raised" THEN AfterFailure(l)
                                        ELSE "sleep",
                              ![l].failed = outcome = "raised",
                              ![l].slept = Period(l)]
    /\ UNCHANGED <<agents, command_history, now, ex, health_vars, disc, register_log, bcast, ag>>

\* asyncio.sleep returns and the while loop starts the next cycle
LoopWakes(l) ==
    /\ loops[l].pc = "sleep"
    /\ loops[l].cycle < MaxCycles
    /\ loops' = [loops EXCEPT ![l].pc = "cycle", ![l].cycle = loops[l].cycle + 1]
    /\ UNCHANGED <<agents, command_history, now, ex, health_vars, disc, register_log, bcast, ag>>

NextLoops ==
    \/ \E l \in Loops, outcome \in CycleOutcomes : LoopCycleEnds(l, outcome)
    \/ \E l \in Loops : LoopWakes(l)

\* the event loop runs a task whose sleep is over, and the awaited calls end
SpecLoops ==
    /\ Init
    /\ [][NextLoops]_vars
    /\ \A l \in Loops : WF_vars(LoopWakes(l))
    /\ \A l \in Loops : WF_vars(\E outcome \in CycleOutcomes : LoopCycleEnds(l, outcome))

(***************************************************************************)
(* The coordinator with all its operations interleaved                     *)
(***************************************************************************)
FleetAgentInfo ==
    {d \in NewAgentInfo :
        d.id = "a1" /\ d.os_type = "Linux" /\ d.host = "h1" /\ d.is_healthy /\ ~d.tz}

FleetBodies ==
    {b \in CapabilityBodies : b.id = "a2" /\ b.os_type = "Linux" /\ b.is_healthy /\ ~b.tz}

FleetHostRanges == {<<"h2:5001">>}

FleetDispatches ==
    {r \in ExecuteResponses :
        r.kind = "exc" \/ (r.body \in CommandResultBodies /\ r.body.success)}

FleetHealthResponses == {r \in HealthResponses : r.kind = "exc" \/ r.body = "object"}

FleetCapabilityResponses ==
    {r \in CapabilityResponses(FleetBodies) : r.kind = "exc" \/ r.body \in FleetBodies}

NextFleet ==
    \/ \E agent_info \in FleetAgentInfo : RegisterAgent(agent_info)
    \/ \E user_input \in UserInputs : ExecStart(user_input, [kind |-> "malformed"])
    \/ \E resp \in FleetDispatches : ExecResponse(resp)
    \/ HealthCall(1, TRUE)
    \/ \E resp \in FleetHealthResponses : HealthReply(1, resp)
    \/ HealthProcess(1)
    \/ HealthWake(1)
    \/ HealthReturn(1)
    \/ \E host_range \in FleetHostRanges :
          DiscoverStart([given |-> TRUE, hosts |-> host_range], DefaultEnvironment)
    \/ CheckHostAcquire(1)
    \/ \E resp \in FleetCapabilityResponses : CheckHostReply(1, resp)
    \/ DiscoverReturn

SpecFleet == Init /\ [][NextFleet]_vars

\* the coordinator with the clock: registrations of a1 by a caller, discovery
\* of a1 at the candidate h2:5001, a forced sweep, commands
FieldsAgentInfo ==
    {d \in NewAgentInfo :
        d.id = "a1" /\ d.os_type = "Linux" /\ d.host = "h1" /\ d.is_healthy /\ ~d.tz}

\* what an agent reports of itself: is_healthy at its default, last_seen the
\* time the agent started
FieldsBodies ==
    {b \in CapabilityBodies : b.id = "a1" /\ b.os_type = "Linux" /\ b.is_healthy /\ ~b.tz}

FieldsCapabilityResponses ==
    {r \in CapabilityResponses(FieldsBodies) : r.kind = "exc" \/ r.body \in FieldsBodies}

NextFields ==
    \/ \E agent_info \in FieldsAgentInfo : RegisterAgent(agent_info)
    \/ \E user_input \in UserInputs : ExecStart(user_input, [kind |-> "malformed"])
    \/ \E resp \in FleetDispatches : ExecResponse(resp)
    \/ HealthCall(1, TRUE)
    \/ \E resp \in FleetHealthResponses : HealthReply(1, resp)
    \/ HealthProcess(1)
    \/ HealthWake(1)
    \/ HealthReturn(1)
    \/ \E host_range \in FleetHostRanges :
          DiscoverStart([given |-> TRUE, hosts |-> host_range], DefaultEnvironment)
    \/ CheckHostAcquire(1)
    \/ \E resp \in FieldsCapabilityResponses : CheckHostReply(1, resp)
    \/ DiscoverReturn
    \/ Tick

SpecFields == Init /\ [][NextFields]_vars

(***************************************************************************)
(* The health monitor running for ever                                     *)
(***************************************************************************)
\* a stored time as it stands once HealthPeriod seconds have passed: the clock
\* of this specification is relative, the seconds of the sleep move every
\* stored time back instead of moving now forward, and times further back
\* than one period are not told apart
Earlier(t) == IF t = DatetimeMin THEN DatetimeMin ELSE now - HealthPeriod

\* health_monitor: health_check_agents(force=False) has returned or raised,
\* and the task sleeps its 45 seconds before the next call
HealthMonitorSleep ==
    /\ hc[1].pc \in {"done", "raised"}
    /\ hc' = [hc EXCEPT ![1] = NoSweep]
    /\ last_health_check' = Earlier(last_health_check)
    /\ agents' = [i \in 1..Len(agents) |->
                     [agents[i] EXCEPT !.last_seen = Earlier(agents[i].last_seen)]]
    /\ UNCHANGED <<command_history, now, ex, lock_holder, lock_waiters, disc,
                   register_log, loops, bcast, ag>>

\* the agent of the monitor specification, as the initial discovery finds it and
\* as /capabilities describes it to every later discovery run
MonitorAgentInfo ==
    {d \in NewAgentInfo :
        d.id = "a1" /\ d.os_type = "Linux" /\ d.host = "h1" /\ d.is_healthy /\ ~d.tz}

MonitorCapabilityResponses ==
    {[kind |-> "exc"]}
        \cup {[kind |-> "http", status |-> 200, body |-> b] :
                 b \in {c \in DiscBodies : c.name = "n1"}}

NextMonitor ==
    \/ \E agent_info \in MonitorAgentInfo :
          /\ agents = <<>>
          /\ RegisterAgent(agent_info)
    \/ HealthCall(1, FALSE)
    \/ \E resp \in HealthResponses : HealthReply(1, resp)
    \/ HealthProcess(1)
    \/ HealthWake(1)
    \/ HealthMonitorSleep
    \/ DiscoverStart([given |-> TRUE, hosts |-> <<"h1:5001">>], DefaultEnvironment)
    \/ CheckHostAcquire(1)
    \/ \E resp \in MonitorCapabilityResponses : CheckHostReply(1, resp)
    \/ DiscoverReturn

\* the event loop runs the health monitor whenever it can go on, and every
\* request of a sweep ends, by a reply or by its timeout
SpecMonitor ==
    /\ Init
    /\ [][NextMonitor]_vars
    /\ WF_vars(HealthCall(1, FALSE))
    /\ WF_vars(\E resp \in HealthResponses : HealthReply(1, resp))
    /\ WF_vars(HealthProcess(1))
    /\ WF_vars(HealthWake(1))
    /\ WF_vars(HealthMonitorSleep)

(***************************************************************************)
(* Discovery runs and health calls to their end                            *)
(***************************************************************************)
\* what the agent reports of itself: a1, with a naive or an aware last_seen
TerminationBodies ==
    {b \in CapabilityBodies :
        b.id = "a1" /\ b.name = "n1" /\ b.os_type = "Linux" /\ b.is_healthy}

\* more candidates than the semaphore has permits: the agent's address first,
\* then addresses where nothing listens
TerminationHosts == [i \in 1..NumCandidates |-> IF i = 1 THEN "h1:5001" ELSE "h2:5001"]

\* what a probe of the address ends with: the agent answers or fails, an
\* address without an agent refuses or times out
TerminationCapabilityResponses(host_port) ==
    {[kind |-> "exc"]}
        \cup {[kind |-> "http", status |-> 200, body |-> b] :
                 b \in {c \in TerminationBodies : host_port = "h1:5001"}}

\* the discovery run main() awaits before it starts the monitors, over more
\* candidates than the semaphore has permits and with an empty directory, then
\* the health calls of several callers
NextTermination ==
    \/ \E c \in Calls, force \in BOOLEAN :
          /\ disc.pc = "idle"
          /\ HealthCall(c, force)
    \/ \E c \in Calls : HealthAcquire(c)
    \/ \E c \in Calls, resp \in RateResponses : HealthReply(c, resp)
    \/ \E c \in Calls : HealthProcess(c)
    \/ \E c \in Calls : HealthWake(c)
    \/ \E c \in Calls : HealthReturn(c)
    \/ /\ agents = <<>>
       /\ \A c \in Calls : hc[c].pc = "idle"
       /\ DiscoverStart([given |-> TRUE, hosts |-> TerminationHosts], DefaultEnvironment)
    \/ \E i \in 1..NumCandidates : CheckHostAcquire(i)
    \/ \E i \in 1..NumCandidates :
          \E resp \in TerminationCapabilityResponses(TerminationHosts[i]) :
             CheckHostReply(i, resp)
    \/ DiscoverReturn

\* the event loop runs every task that can go on; a request ends, by its reply
\* or by its timeout; a sleep ends
SpecTermination ==
    /\ Init
    /\ [][NextTermination]_vars
    /\ WF_vars(\E c \in Calls : HealthAcquire(c))
    /\ WF_vars(\E c \in Calls, resp \in RateResponses : HealthReply(c, resp))
    /\ WF_vars(\E c \in Calls : HealthProcess(c))
    /\ WF_vars(\E c \in Calls : HealthWake(c))
    /\ WF_vars(\E i \in 1..NumCandidates : CheckHostAcquire(i))
    /\ WF_vars(\E i \in 1..NumCandidates :
                   \E resp \in TerminationCapabilityResponses(TerminationHosts[i]) :
                      CheckHostReply(i, resp))
    /\ WF_vars(DiscoverReturn)

(***************************************************************************)
(* The agent: /execute and the discovery listener                          *)
(***************************************************************************)
\* self.info as Agent.__init__ builds it
AgentSelves == [id : {"a1"}, name : {"n1"}, os_type : OsTypes, port : {5001, 5002}]

\* Agent(...): the application is set up and the listener thread started;
\* bound is FALSE when the listener fails to create or bind its socket
AgentStart(info, bound) ==
    /\ ag.pc = "down"
    /\ ag' = [NoAgent EXCEPT !.pc = "up", !.info = info,
                             !.listener.pc = IF bound THEN "listening" ELSE "failed"]
    /\ UNCHANGED <<agents, command_history, now, ex, health_vars, disc, register_log,
                   loops, bcast>>

\* commands are sequences of characters
UpperLetters ==
    <<"A", "B", "C", "D", "E", "F", "G", "H", "I", "J", "K", "L", "M",
      "N", "O", "P", "Q", "R", "S", "T", "U", "V", "W", "X", "Y", "Z">>

LowerLetters ==
    <<"a", "b", "c", "d", "e", "f", "g", "h", "i", "j", "k", "l", "m",
      "n", "o", "p", "q", "r", "s", "t", "u", "v", "w", "x", "y", "z">>

\* command.lower()
StrLower(text) ==
    [i \in 1..Len(text) |->
        IF \E k \in 1..Len(UpperLetters) : UpperLetters[k] = text[i]
        THEN LowerLetters[CHOOSE k \in 1..Len(UpperLetters) : UpperLetters[k] = text[i]]
        ELSE text[i]]

\* pattern in text
Contains(pattern, text) ==
    \E i \in 1..(Len(text) - Len(pattern) + 1) :
        SubSeq(text, i, i + Len(pattern) - 1) = pattern

\* dangerous_patterns
DangerousPatterns ==
    <<<<"r", "m", " ", "-", "r", "f">>,
      <<"d", "e", "l", " ", "/", "f">>,
      <<"f", "o", "r", "m", "a", "t">>,
      <<"s", "h", "u", "t", "d", "o", "w", "n">>,
      <<"r", "e", "b", "o", "o", "t">>>>

\* a check that compares the command as typed
validate_command_asgiven(command) ==
    ~\E k \in 1..Len(DangerousPatterns) : Contains(DangerousPatterns[k], command)

\* _validate_command(command)
validate_command(command) ==
    ~\E k \in 1..Len(DangerousPatterns) :
        Contains(DangerousPatterns[k], StrLower(command))

\* the commands of the requests: ls, rm -rf /, RM -RF /, rm -r x, del /F x,
\* Format c:, echo format, shutdown, REBOOT, reboo, and the empty command
Commands ==
    {<<"l", "s">>,
     <<"r", "m", " ", "-", "r", "f", " ", "/">>,
     <<"R", "M", " ", "-", "R", "F", " ", "/">>,
     <<"r", "m", " ", "-", "r", " ", "x">>,
     <<"d", "e", "l", " ", "/", "F", " ", "x">>,
     <<"F", "o", "r", "m", "a", "t", " ", "c", ":">>,
     <<"e", "c", "h", "o", " ", "f", "o", "r", "m", "a", "t">>,
     <<"s", "h", "u", "t", "d", "o", "w", "n">>,
     <<"R", "E", "B", "O", "O", "T">>,
     <<"r", "e", "b", "o", "o">>,
     <<>>}

\* how subprocess.run ends: the command exits, runs into the 30 s timeout, or
\* run raises another exception
SubprocessOutcomes ==
    {[kind |-> "exit", returncode |-> 0, stdout |-> "out", stderr |-> "", message |-> ""],
     [kind |-> "exit", returncode |-> 1, stdout |-> "", stderr |-> "err", message |-> ""],
     [kind |-> "timeout", returncode |-> 0, stdout |-> "", stderr |-> "", message |-> ""],
     [kind |-> "exc", returncode |-> 0, stdout |-> "", stderr |-> "",
      message |-> "Command not found"]}

\* CommandResult(...) as the route builds it; the measured execution time is
\* left at 0
AgentResult(success, output, error, execution_time_ms, command, agent_id) ==
    [success |-> success, output |-> output, error |-> error,
     execution_time_ms |-> execution_time_ms, command |-> command,
     agent_id |-> agent_id]

\* str(HTTPException(status_code=403, detail="Command not allowed"))
Rejection == "403: Command not allowed"

\* POST /execute with payload {"command": command}: the route runs without
\* awaiting, from the validation to the CommandResult it returns
AgentExecute(command, outcome) ==
    /\ ag.pc = "up"
    /\ ag' = [ag EXCEPT !.exec =
                 IF ~validate_command(command)
                 THEN [command |-> command, ran |-> <<>>, status |-> 200,
                       result |-> AgentResult(FALSE, "", Rejection, 0, command,
                                              ag.info.id)]
                 ELSE [command |-> command, ran |-> <<command>>, status |-> 200,
                       result |->
                           CASE outcome.kind = "exit" ->
                                  AgentResult(outcome.returncode = 0, outcome.stdout,
                                              outcome.stderr, 0, command, ag.info.id)
                             [] outcome.kind = "timeout" ->
                                  AgentResult(FALSE, "", "Command timed out", 30000,
                                              command, ag.info.id)
                             [] OTHER ->
                                  AgentResult(FALSE, "", outcome.message, 0, command,
                                              ag.info.id)]]
    /\ UNCHANGED <<agents, command_history, now, ex, health_vars, disc, register_log,
                   loops, bcast>>

\* the datagrams that reach port 5099 of the agent
Probes == [sender : Hosts, data : Payloads]

\* the response dictionary of the listener
DiscoveryResponse(info) ==
    [type |-> "agent_response", port |-> info.port, agent_id |-> info.id,
     name |-> info.name, os_type |-> info.os_type]

\* a listener whose loop ends on a datagram it cannot read
HandleProbe_unguarded(info, d) ==
    CASE d.data.form \in {"bytes", "text", "array"} ->
           [pc |-> "ended", sent |-> <<>>, error |-> TRUE]
      [] OTHER ->
           IF ResponseGet(d.data.obj, "type", None) = "agent_discovery"
           THEN [pc |-> "listening", error |-> FALSE,
                 sent |-> <<[to |-> d.sender, data |-> DiscoveryResponse(info)]>>]
           ELSE [pc |-> "listening", sent |-> <<>>, error |-> FALSE]

\* one pass of the while loop of broadcast_listener on the datagram d:
\* data.decode(), json.loads and message.get raise on bytes, text and values
\* that are no dict, and the except of the pass logs the error
HandleProbe(info, d) ==
    CASE d.data.form \in {"bytes", "text", "array"} ->
           [pc |-> "listening", sent |-> <<>>, error |-> TRUE]
      [] OTHER ->
           IF ResponseGet(d.data.obj, "type", None) = "agent_discovery"
           THEN [pc |-> "listening", error |-> FALSE,
                 sent |-> <<[to |-> d.sender, data |-> DiscoveryResponse(info)]>>]
           ELSE [pc |-> "listening", sent |-> <<>>, error |-> FALSE]

\* sock.recvfrom returns the datagram d and the listener handles it
ListenerRecv(d) ==
    /\ ag.pc = "up"
    /\ ag.listener.pc = "listening"
    /\ ag' = [ag EXCEPT !.listener =
                 [pc |-> HandleProbe(ag.info, d).pc,
                  received |-> d,
                  sent |-> HandleProbe(ag.info, d).sent,
                  logged |-> ag.listener.logged \/ HandleProbe(ag.info, d).error]]
    /\ UNCHANGED <<agents, command_history, now, ex, health_vars, disc, register_log,
                   loops, bcast>>

NextAgent ==
    \/ \E info \in AgentSelves, bound \in BOOLEAN : AgentStart(info, bound)
    \/ \E command \in Commands, outcome \in SubprocessOutcomes :
          AgentExecute(command, outcome)
    \/ \E d \in Probes : ListenerRecv(d)

SpecAgent == Init /\ [][NextAgent]_vars

\* the replies of the dispatch specification
DispatchResponses ==
    {r \in ExecuteResponses :
        (r.kind = "http" /\ r.body \in CommandResultBodies) => r.body.error = ""}

Next ==
    \/ \E agent_info \in DispatchAgentInfo : RegisterAgent(agent_info)
    \/ \E user_input \in UserInputs, tr \in TranslatorOutcomes : ExecStart(user_input, tr)
    \/ \E resp \in DispatchResponses : ExecResponse(resp)

Spec == Init /\ [][Next]_vars

\* the directory alone, under every registration
NextDirectory == \E agent_info \in NewAgentInfo : RegisterAgent(agent_info)

SpecDirectory == Init /\ [][NextDirectory]_vars

(***************************************************************************)
(* Properties                                                              *)
(***************************************************************************)
Entries(dir) == {dir[i] : i \in 1..Len(dir)}

Unhealthy(dir) == \A i \in 1..Len(dir) : ~dir[i].is_healthy

\* translator output naming target_os t, t a string
Targeting(t) == [json |-> "object", obj |-> [target_os |-> t, command |-> "ls"]]

StringTargets == {t \in TargetValues : IsStr(t)}

\* C1: register_agent with an id already in the directory replaces the stored
\* descriptor with the new one: one entry for the id, holding the new values,
\* the same number of entries, every other entry as before.
C1_ReRegistrationReplaces ==
    [][\A d \in NewAgentInfo :
          (d.id = register_log'.id /\ d.id \in Ids(agents)
              /\ agents' = register_agent(agents, d)
              /\ register_log' = RegisterLog(agents, d))
          => /\ Len(agents') = Len(agents)
             /\ Cardinality({i \in 1..Len(agents') : agents'[i].id = d.id}) = 1
             /\ \A i \in 1..Len(agents') :
                   IF agents[i].id = d.id THEN agents'[i] = d ELSE agents'[i] = agents[i]
             /\ register_log'.replaced /\ register_log'.total = Len(agents)]_vars

C1_Witness ==
    /\ register_log.replaced
    /\ register_log.id = "a1"
    /\ Len(agents) = 2
    /\ agents[1].id = "a1" /\ agents[1].os_type = "Windows" /\ ~agents[1].is_healthy
    /\ agents[2].id = "a2"

\* C2: for every directory and every target_os, select_agent never returns an
\* agent that is not healthy, and it returns None exactly when the directory
\* holds no healthy agent; for a target_os that is a string it always returns.
C2_SelectsHealthyOnly ==
    /\ \A t \in TargetValues :
          LET r == select_agent(agents, Targeting(t))
          IN  /\ IsStr(t) => r.kind \in {"agent", "none"}
              /\ r.kind = "agent" => r.agent \in Entries(agents) /\ r.agent.is_healthy
              /\ r.kind = "none" <=> Unhealthy(agents)
    /\ ex.pc = "dispatch" => ex.agent.is_healthy
    /\ (ex.pc = "returned" /\ ex.result.agent_id = "none") => ex.sent = 0

C2_Witness ==
    /\ ex.pc = "dispatch"
    /\ Len(agents) = 2
    /\ ~agents[1].is_healthy
    /\ ex.agent = agents[2]

\* C3: for a target_os other than "any", select_agent returns a healthy agent of
\* that OS (compared without regard to case) when there is one, and a healthy
\* agent of another OS, not None, when there is none but some agent is healthy.
C3_OsPreferenceWithFallback ==
    \A t \in StringTargets \ {"any"} :
       LET r == select_agent(agents, Targeting(t))
           matches == {a \in Entries(agents) :
                          a.is_healthy /\ Lower(a.os_type) = Lower(t)}
       IN  /\ matches # {} => r.kind = "agent" /\ r.agent \in matches
           /\ (matches = {} /\ ~Unhealthy(agents))
                 => /\ r.kind = "agent"
                    /\ r.agent \in Entries(agents)
                    /\ r.agent.is_healthy
                    /\ Lower(r.agent.os_type) # Lower(t)

C3_Witness ==
    /\ ex.pc = "dispatch"
    /\ ex.parsed.obj = [target_os |-> "WINDOWS", command |-> "ls"]
    /\ Len(agents) = 2
    /\ agents[1].is_healthy /\ agents[1].os_type = "Linux"
    /\ ex.agent = agents[2] /\ agents[2].os_type = "Windows"

\* a step in which execute_command runs from its call to its first suspension
ExecStartStep == ex.pc # "dispatch" /\ ex' # ex

\* C4: when execute_command reaches agent selection and finds no healthy agent
\* (empty directory or every agent unhealthy) it returns success=False,
\* agent_id="none", execution_time_ms=0 and the error "No healthy agents
\* available", sends no request to an agent and leaves command_history as it is.
C4_NoAgentDispatch ==
    [][(ExecStartStep /\ Unhealthy(agents) /\ ex'.pc # "raised")
          => /\ ex'.pc = "returned"
             /\ ex'.result = [success |-> FALSE, error |-> "No healthy agents available",
                              execution_time_ms |-> 0, command |-> ex'.user_input,
                              agent_id |-> "none"]
             /\ ex'.sent = 0
             /\ command_history' = command_history]_vars

C4_Witness ==
    /\ ex.pc = "returned"
    /\ ex.result.agent_id = "none"
    /\ ex.sent = 0
    /\ Len(agents) = 2
    /\ Unhealthy(agents)

\* C8: execute_command, discover_agents and health_check_agents return normally
\* whatever the translator and the agents reply: no call ends with an exception.
C8_NoCallRaises ==
    /\ ex.pc # "raised"
    /\ \A c \in Calls : hc[c].pc # "raised"

\* C9: command_history changes only by one entry appended at its end, and only
\* in an execute_command call whose dispatch got HTTP 200 with a body that is a
\* CommandResult; no entry is ever modified or removed.
C9_HistoryAppendOnly ==
    [][command_history' # command_history
          => /\ ex.pc = "dispatch"
             /\ ex'.pc = "returned"
             /\ ex'.status = 200
             /\ ex'.result \in CommandResultBodies
             /\ Len(command_history') = Len(command_history) + 1
             /\ SubSeq(command_history', 1, Len(command_history)) = command_history
             /\ command_history'[Len(command_history')].result = ex'.result
             /\ command_history'[Len(command_history')].user_input = ex.user_input]_vars

C9_Witness ==
    /\ Len(command_history) = 2
    /\ ex.pc = "returned"
    /\ ex.status = 200
    /\ command_history[2].result = ex.result
    /\ command_history[1].result # command_history[2].result

\* C5: in a sweep, an agent whose third attempt gets HTTP 200 after two failed
\* attempts ends marked healthy with last_seen the time of that reply; an agent
\* whose three attempts all fail ends marked unhealthy with last_seen unchanged.
C5_RetryConvergence ==
    [][\A c \in Calls :
          (hc[c].pc = "reply" /\ hc'[c] # hc[c] /\ hc[c].attempt = MaxAttempts - 1)
          => LET id == hc[c].snap[hc[c].idx].id
                 r == hc[c].resp
             IN  IF r.kind = "http" /\ r.status = 200
                 THEN /\ Lookup(agents', id).is_healthy
                      /\ Lookup(agents', id).last_seen = now
                 ELSE /\ ~Lookup(agents', id).is_healthy
                      /\ Lookup(agents', id).last_seen = Lookup(agents, id).last_seen]_vars

\* C6: of two health_check_agents(force=False) calls made less than 10 seconds
\* apart only one sweeps; a call with force=True always sweeps.
C6_RateLimit ==
    /\ \A c, d \in Calls :
          (/\ c # d
           /\ hc[c].pc # "idle" /\ hc[d].pc # "idle"
           /\ ~hc[c].force /\ ~hc[d].force
           /\ hc[c].invoked_at - hc[d].invoked_at < RateLimitSeconds
           /\ hc[d].invoked_at - hc[c].invoked_at < RateLimitSeconds)
          => ~(hc[c].swept /\ hc[d].swept)
    /\ \A c \in Calls : (hc[c].pc = "done" /\ hc[c].force) => hc[c].swept

Sweeping == {c \in Calls : hc[c].pc \in {"probe", "reply", "sleep"}}

\* C7: at most one health sweep is between its start and its end at any time,
\* whoever the callers are and whether they force the sweep or not.
C7_OneSweepAtATime ==
    /\ Cardinality(Sweeping) <= 1
    /\ \A c \in Sweeping : lock_holder = c
    /\ \A c \in Calls : hc[c].pc = "wait" => \E i \in 1..Len(lock_waiters) : lock_waiters[i] = c

C7_Witness ==
    \E c, d \in Calls :
       /\ hc[c].pc = "reply"
       /\ hc[d].pc = "wait"
       /\ hc[d].force

\* C10: while discover_agents verifies its candidates, never more than 10
\* capability probes are in flight, however many candidates there are.
C10_ProbesBounded ==
    /\ CountProbes(disc.task) <= SemaphorePermits
    /\ disc.pc = "gather" => disc.semaphore = SemaphorePermits - CountProbes(disc.task)

C10_Witness ==
    /\ Len(disc.task) > SemaphorePermits
    /\ CountProbes(disc.task) = SemaphorePermits
    /\ \E i \in 1..Len(disc.task) : disc.task[i] = "wait"

\* the replies to a dispatch that do not end in HTTP 200
FailedDispatches == {r \in ExecuteResponses : r.kind = "exc" \/ r.status # 200}

\* the error execute_command builds for such a reply
DispatchError(r) ==
    IF r.kind = "http" THEN StatusError(r.status, r.body.text)
    ELSE CommunicationError(r.message)

\* C19: when an agent was selected and the dispatch does not end in HTTP 200,
\* execute_command returns success=False, agent_id the selected agent's id,
\* execution_time_ms=0 and an error carrying the status and body of the reply,
\* or the message of the transport exception.
C19_DispatchFailureResult ==
    [][(ex.pc = "dispatch" /\ ex'.pc = "returned" /\ ex'.status # 200)
          => /\ ex'.result.success = FALSE
             /\ ex'.result.agent_id = ex.agent.id
             /\ ex'.result.execution_time_ms = 0
             /\ ex'.result.command = ex.user_input
             /\ \E r \in FailedDispatches :
                   /\ StatusOf(r) = ex'.status
                   /\ ex'.result.error = DispatchError(r)]_vars

C19_Witness ==
    /\ ex.pc = "returned"
    /\ ex.status = 500
    /\ ex.result.agent_id = "a2"
    /\ ex.result.error = "Agent returned status 500: boom"

\* C20: every CommandResult that execute_command returns with success=False
\* has a non-empty error, whether the coordinator built it or an agent did.
C20_FailureHasError ==
    (ex.pc = "returned" /\ ~ex.result.success) => ex.result.error \notin {None, ""}

\* C15: a translator failure (API exception, empty reply, reply that is not
\* JSON) never reaches the caller of execute_command: parse_command returns
\* target_os "any" with the user input as the command, and the call goes on.
C15_TranslatorFallback ==
    /\ ex.pc = "raised" => ex.result.exc # "UnboundLocalError"
    /\ \A u \in UserInputs :
          parse_command(u, [kind |-> "malformed"]) =
              [kind |-> "return", value |-> Fallback(u)]

\* the task of candidate i ends in this step
CheckHostEnds(i) ==
    /\ disc.pc = "gather"
    /\ i \in 1..Len(disc.task)
    /\ disc.task[i] = "probe"
    /\ disc'.pc = "gather"
    /\ disc'.task[i] = "done"

\* C11: every descriptor discover_agents registers has the host and the port of
\* the candidate it was reached through, whatever the body of /capabilities
\* says about host and port.
C11_AddressOverride ==
    /\ [][\A i \in 1..NumCandidates :
             (CheckHostEnds(i) /\ <<agents, register_log>>' # <<agents, register_log>>)
             => LET registered == Lookup(agents', register_log'.id)
                    host_port == disc.host_range[i]
                IN  /\ host_port = "h1:5001" => registered.host = "h1"
                    /\ host_port = "h2:5001" => registered.host = "h2"
                    /\ registered.port = 5001
                    /\ host_port \in {"h1:5001", "h2:5001"}]_vars
    /\ [](\A a \in Entries(agents) : a.host \in {"h1", "h2"} /\ a.port = 5001)

C11_Witness ==
    /\ disc.pc = "gather"
    /\ \E i \in 1..Len(disc.task) :
          disc.task[i] = "done" /\ disc.host_range[i] = "h2:5001"
    /\ Len(agents) = 1
    /\ agents[1].host = "h2" /\ agents[1].port = 5001

\* C12: discover_agents called without a host list, with AGENT_DISCOVERY_HOSTS
\* set to a comma-separated list, probes exactly the entries of that list: no
\* broadcast, no network scan, no manual host, named configuration or
\* localhost default.
C12_EnvHostsOverride ==
    (disc.pc # "idle" /\ ~disc.arg.given /\ disc.env_hosts = "h1:5001, h2:5001")
        => /\ disc.pc = "gather"
           /\ disc.host_range = <<"h1:5001", "h2:5001">>
           /\ Len(disc.task) = 2
           /\ ~disc.broadcast
           /\ ~disc.scan

C12_Witness ==
    /\ disc.pc = "gather"
    /\ ~disc.arg.given
    /\ disc.env_hosts = "h1:5001, h2:5001"
    /\ disc.task = <<"done", "done">>
    /\ Len(agents) = 1

\* C13: discover_agents called with a host list, the empty list included,
\* probes the hosts of that list and nothing else: no environment override,
\* named configuration, manual host, broadcast, scan or localhost default.
C13_ExplicitListOnly ==
    (disc.pc # "idle" /\ disc.arg.given)
        => /\ disc.host_range = disc.arg.hosts
           /\ ~disc.broadcast
           /\ ~disc.scan

\* what check_host makes of the reply resp to the probe of host_port, as the
\* directory shows it
Answered(host_port, resp) ==
    /\ resp.kind = "http"
    /\ resp.status = 200
    /\ resp.body.id \in AgentIds
    /\ host_port \in {"h1:5001", "h2:5001"}

\* C14: in a discover_agents run a candidate whose probe raises, times out or
\* returns a status other than 200 registers nothing and leaves the other
\* candidates to be probed and registered; a candidate of the form host:port
\* that answers 200 with a valid body is registered.
C14_FailureIsolation ==
    /\ [](\A i \in 1..Len(disc.task), resp \in CapabilityResponses(DiscBodies) :
             disc.task[i] = "probe"
             => LET out == check_host(agents, disc.host_range[i], resp)
                IN  IF Answered(disc.host_range[i], resp)
                    THEN /\ out.result
                         /\ resp.body.id \in Ids(out.agents)
                         /\ \A a \in Entries(agents) :
                               a.id # resp.body.id => a \in Entries(out.agents)
                    ELSE ~out.result /\ out.agents = agents)
    /\ [][\A i \in 1..NumCandidates :
             CheckHostEnds(i)
             => /\ \A j \in 1..Len(disc.task) : j # i => disc'.task[j] = disc.task[j]
                /\ disc'.semaphore = disc.semaphore + 1
                /\ disc'.host_range = disc.host_range
                /\ \E resp \in CapabilityResponses(DiscBodies) :
                      agents' = check_host(agents, disc.host_range[i], resp).agents]_vars
    /\ [][(disc.pc = "gather" /\ disc'.pc = "idle")
             => \A i \in 1..Len(disc.task) : disc.task[i] = "done"]_vars

C14_Witness ==
    /\ disc.pc = "gather"
    /\ disc.host_range = <<"h2", "h1:5001">>
    /\ disc.task = <<"done", "done">>
    /\ Len(agents) = 1
    /\ agents[1].host = "h1"

\* C18: in each periodic background loop a cycle that raises does not end the
\* loop: the task sleeps its period and then starts the next cycle.
C18_LoopsSurviveFailures ==
    /\ [](\A l \in Loops : loops[l].pc \in {"cycle", "sleep"})
    /\ [][\A l \in Loops :
             (loops[l].pc # "cycle" /\ loops[l].failed /\ loops'[l] # loops[l])
             => /\ loops[l].pc = "sleep"
                /\ loops[l].slept = Period(l)
                /\ loops'[l].pc = "cycle"
                /\ loops'[l].cycle = loops[l].cycle + 1]_vars
    /\ \A l \in Loops : \A n \in 1..(MaxCycles - 1) :
          (loops[l].pc # "cycle" /\ loops[l].failed /\ loops[l].cycle = n)
              ~> (loops[l].pc = "cycle" /\ loops[l].cycle = n + 1)

C18_Witness ==
    \A l \in Loops :
       /\ loops[l].pc = "cycle"
       /\ loops[l].failed
       /\ loops[l].cycle = MaxCycles
       /\ loops[l].slept = Period(l)

\* C16: the set of ids in the directory never shrinks: whatever registrations,
\* discovery runs, health sweeps and command executions take place, an id once
\* registered stays, also for an agent that stopped answering.
C16_DirectoryNeverShrinks ==
    [][/\ Ids(agents) \subseteq Ids(agents')
       /\ Len(agents') >= Len(agents)
       /\ \A i \in 1..Len(agents) : agents'[i].id = agents[i].id]_vars

C16_Witness ==
    /\ Len(agents) = 2
    /\ \E i \in 1..2 : agents[i].id = "a1" /\ ~agents[i].is_healthy
    /\ hc[1].pc = "done" /\ hc[1].swept
    /\ disc.pc = "gather" /\ disc.task = <<"done">>
    /\ Len(command_history) >= 1

\* C17: in a health sweep the failures of the probes of one agent change the
\* is_healthy and last_seen of no other agent, do not keep the sweep from going
\* on to the next agent of the snapshot, and do not reach the caller.
C17_SweepIndependence ==
    [][\A c \in Calls :
          (hc[c].pc = "reply" /\ hc'[c] # hc[c])
          => LET h == hc[c]
                 id == h.snap[h.idx].id
                 gave_up == /\ h.attempt = MaxAttempts - 1
                            /\ ~(h.resp.kind = "http" /\ h.resp.status = 200)
             IN  /\ Len(agents') = Len(agents)
                 /\ \A i \in 1..Len(agents) :
                       agents[i].id # id => agents'[i] = agents[i]
                 /\ hc'[c].pc # "raised"
                 /\ (gave_up /\ h.idx < Len(h.snap))
                       => /\ hc'[c].pc = "probe"
                          /\ hc'[c].idx = h.idx + 1
                          /\ hc'[c].attempt = 0]_vars

\* a call of health_check_agents is made in this step
Invoked(c) == hc[c].pc = "idle" /\ hc'[c].pc # "idle"

\* C21: a health_check_agents(force=False) call that is rate-limited returns
\* without waiting for the sweep lock, and a non-forced call made while a sweep
\* is running returns at once and never sweeps afterwards.
C21_RateLimitedNotQueued ==
    /\ [][\A c \in Calls :
             (Invoked(c) /\ ~hc'[c].force
                 /\ (lock_holder # 0 \/ now - last_health_check < RateLimitSeconds))
             => hc'[c].pc = "done" /\ ~hc'[c].swept]_vars
    /\ [][\A c \in Calls :
             (hc[c].pc = "wait" /\ ~hc[c].force) => ~hc'[c].swept]_vars

\* a step of a sweep that ends one pass of the retry loop for agent id
SweepStepOn(id) ==
    \E c \in Calls :
       /\ hc[c].pc = "reply"
       /\ hc'[c] # hc[c]
       /\ hc[c].snap[hc[c].idx].id = id

\* a step in which register_agent stores the descriptor d
RegistrationOf(d) ==
    /\ agents' = register_agent(agents, d)
    /\ register_log' = RegisterLog(agents, d)
    /\ hc' = hc
    /\ ex' = ex

\* the descriptors a caller or a discovery run of the model registers
Registrable ==
    NewAgentInfo \cup
        {OverrideAddress(b, SplitHostPort(h)) : b \in CapabilityBodies, h \in {"h2:5001"}}

\* the is_healthy or the last_seen of the entry at position i changes
HealthFieldsChange(i) ==
    \/ agents'[i].is_healthy # agents[i].is_healthy
    \/ agents'[i].last_seen # agents[i].last_seen

SnapshotIds(c) == {hc[c].snap[i].id : i \in 1..Len(hc[c].snap)}

\* C23: a health sweep goes through the agents registered when it started:
\* registrations made while it is suspended do not make it fail or skip an
\* agent, it processes each agent of its snapshot once, in order, and it
\* neither probes nor modifies an agent first registered while it runs.
C23_SweepOverSnapshot ==
    /\ [](\A c \in Calls : hc[c].pc # "raised")
    /\ [][\A c \in Calls :
             (hc[c].pc \in {"probe", "reply", "sleep"} /\ hc'[c] # hc[c])
             => /\ hc'[c].pc \in {"probe", "reply", "sleep"}
                   => /\ hc'[c].snap = hc[c].snap
                      /\ hc'[c].idx \in {hc[c].idx, hc[c].idx + 1}
                      /\ hc'[c].idx <= Len(hc[c].snap)
                /\ hc'[c].pc = "done" => hc[c].idx = Len(hc[c].snap)
                /\ hc[c].snap[hc[c].idx].id \in SnapshotIds(c)
                /\ \A i \in 1..Len(agents) :
                      agents[i].id \notin SnapshotIds(c) => agents'[i] = agents[i]]_vars
    /\ [](\A c \in Calls : \A i, j \in 1..Len(hc[c].snap) :
             hc[c].snap[i].id = hc[c].snap[j].id => i = j)

\* the reply being processed carries the status 200
Status200(c) == hc[c].resp.kind = "http" /\ hc[c].resp.status = 200

\* the sweep of call c sends a further request to the agent it is at
RequestsAgain(c) ==
    /\ hc'[c].pc \in {"probe", "sleep"}
    /\ hc'[c].idx = hc[c].idx

\* C24: in one sweep an agent's health endpoint is requested at most 3 times,
\* no request is made to it after its first HTTP 200, and the sweep sets it to
\* is_healthy=False only after 3 failed attempts.
C24_AttemptsPerAgent ==
    /\ [](\A c \in Calls : hc[c].attempt \in 0..(MaxAttempts - 1))
    /\ [][\A c \in Calls :
             (hc[c].pc = "reply" /\ hc'[c] # hc[c])
             => /\ RequestsAgain(c) => hc'[c].attempt = hc[c].attempt + 1
                /\ Status200(c) => ~RequestsAgain(c)
                /\ \A i \in 1..Len(agents) :
                      (agents[i].is_healthy /\ ~agents'[i].is_healthy)
                      => /\ agents[i].id = hc[c].snap[hc[c].idx].id
                         /\ hc[c].attempt = MaxAttempts - 1
                         /\ ~Status200(c)]_vars

\* C25: between two consecutive health attempts for the same agent in a sweep
\* the call sleeps 1 second, whether the earlier attempt ended in a timeout, a
\* connection error or a status other than 200.
C25_PauseBetweenAttempts ==
    [][\A c \in Calls :
          /\ (hc[c].pc = "reply" /\ hc'[c] # hc[c] /\ hc'[c].idx = hc[c].idx
                 /\ hc'[c].pc \notin {"done", "raised"})
             => hc'[c].pc = "sleep"
          /\ (hc[c].pc = "sleep" /\ hc'[c] # hc[c])
             => hc'[c] = [hc[c] EXCEPT !.pc = "probe"]]_vars

\* C26: the status code of the /health reply alone decides the attempt: a
\* reply with HTTP 200 marks the agent healthy and sets last_seen to the time
\* of the reply whatever its body, and a reply with another status is a failed
\* attempt.
C26_StatusDecides ==
    [][\A c \in Calls :
          (hc[c].pc = "reply" /\ hc'[c] # hc[c])
          => LET id == hc[c].snap[hc[c].idx].id
             IN  IF Status200(c)
                 THEN /\ Lookup(agents', id).is_healthy
                      /\ Lookup(agents', id).last_seen = now
                      /\ ~RequestsAgain(c)
                 ELSE IF hc[c].attempt < MaxAttempts - 1
                 THEN /\ RequestsAgain(c)
                      /\ hc'[c].attempt = hc[c].attempt + 1
                      /\ agents' = agents
                 ELSE /\ ~Lookup(agents', id).is_healthy
                      /\ Lookup(agents', id).last_seen = Lookup(agents, id).last_seen]_vars

\* the positions select_agent chooses from for the target t: the healthy
\* agents of that OS when t names an OS and there is one, else the healthy agents
Pool(dir, t) ==
    LET healthy == {i \in 1..Len(dir) : dir[i].is_healthy}
        matching == {i \in healthy : Lower(dir[i].os_type) = Lower(t)}
    IN  IF t # "any" /\ matching # {} THEN matching ELSE healthy

Min(S) == CHOOSE i \in S : \A j \in S : i <= j

\* C27: select_agent returns the first agent, in the order in which the ids
\* were first registered, of the healthy agents matching target_os, or of all
\* healthy agents when target_os is "any" or nothing matches; registering an
\* id again leaves its position, and a new id goes to the end.
C27_FirstMatchInOrder ==
    /\ [](\A t \in StringTargets :
             Pool(agents, t) # {}
             => select_agent(agents, Targeting(t)) =
                    [kind |-> "agent", agent |-> agents[Min(Pool(agents, t))]])
    /\ [][/\ \A i \in 1..Len(agents) : agents'[i].id = agents[i].id
          /\ Len(agents') \in {Len(agents), Len(agents) + 1}
          /\ Len(agents') = Len(agents) + 1
                => /\ agents'[Len(agents')].id \notin Ids(agents)
                   /\ register_log'.id = agents'[Len(agents')].id]_vars

C27_Witness ==
    /\ Len(agents) = 2
    /\ register_log.replaced /\ register_log.id = agents[1].id
    /\ agents[1].is_healthy /\ agents[1].os_type = "Linux"
    /\ agents[2].is_healthy /\ agents[2].os_type = "Windows"
    /\ select_agent(agents, Targeting("any")).agent = agents[1]
    /\ select_agent(agents, Targeting("macos")).agent = agents[1]
    /\ select_agent(agents, Targeting("WINDOWS")).agent = agents[2]

\* the datagram recvfrom returns in this step
Received == bcast'.received[Len(bcast'.received)]

\* the data is a JSON object whose type is "agent_response"
ValidReply(d) ==
    /\ d.data.form = "object"
    /\ "type" \in DOMAIN d.data.obj
    /\ d.data.obj.type = "agent_response"

\* C28: in the listen window a datagram that is not valid JSON, is not a JSON
\* object or has a type other than "agent_response" adds no candidate and does
\* not end the window; only a receive timeout or the end of the 3-second
\* window ends the listening.
C28_MalformedSkipped ==
    /\ [][(bcast.pc = "listen" /\ bcast'.received # bcast.received
              /\ ~ValidReply(Received))
             => /\ bcast'.discovered_hosts = bcast.discovered_hosts
                /\ bcast'.pc = "listen"]_vars
    /\ [][(bcast.pc = "listen" /\ bcast'.pc = "returned")
             => bcast'.ended \in {"timeout", "window"}]_vars

\* the candidate of a valid reply: the sender's address, and the port of the
\* payload or 5001
Candidate(d) ==
    IF "port" \in DOMAIN d.data.obj
    THEN (CASE d.sender = "h1" /\ d.data.obj.port = 5002 -> "h1:5002"
            [] d.sender = "h2" /\ d.data.obj.port = 5002 -> "h2:5002")
    ELSE (CASE d.sender = "h1" -> "h1:5001"
            [] d.sender = "h2" -> "h2:5001")

RECURSIVE Candidates(_)
Candidates(received) ==
    IF received = <<>> THEN <<>>
    ELSE IF ValidReply(Head(received))
         THEN <<Candidate(Head(received))>> \o Candidates(Tail(received))
         ELSE Candidates(Tail(received))

\* C29: discover_agents_broadcast returns, in order of arrival, one candidate
\* for each valid agent_response datagram it received, made of the sender's
\* address and the port of the payload, or 5001 when the payload has none;
\* equal candidates are all kept.
C29_BroadcastCandidates ==
    /\ bcast.discovered_hosts = Candidates(bcast.received)
    /\ bcast.ended = "send_error" => bcast.discovered_hosts = <<>>

C29_Witness ==
    /\ bcast.pc = "returned"
    /\ Len(bcast.received) = 3
    /\ bcast.received[2].data.form = "text"
    /\ bcast.discovered_hosts = <<"h2:5002", "h2:5002">>

Elements(list) == {list[i] : i \in 1..Len(list)}

NoRepeats(list) == \A i, j \in 1..Len(list) : list[i] = list[j] => i = j

\* C30: on the path that merges the manual hosts with the answers to the
\* broadcast, the working set holds every manual host and every broadcast
\* candidate, and no host:port string twice, also when the manual list or the
\* broadcast answers hold an entry more than once.
C30_MergeWithoutRepeats ==
    (disc.pc # "idle" /\ (disc.manual_hosts # <<>> \/ disc.broadcast_hosts # <<>>))
        => /\ Elements(disc.manual_hosts) \subseteq Elements(disc.host_range)
           /\ Elements(disc.broadcast_hosts) \subseteq Elements(disc.host_range)
           /\ NoRepeats(disc.host_range)

\* AGENT_DISCOVERY_HOSTS is unset or empty in the environment of the run
NoEnvHosts == disc.env.env_hosts \in {None, ""}

\* the entries of network_configs under the name AGENT_NETWORK_CONFIG holds
ConfigsNamed ==
    {i \in 1..Len(disc.env.network_configs) :
        /\ disc.env.network_name # None
        /\ disc.env.network_configs[i].name = disc.env.network_name}

\* AGENT_USE_BROADCAST, or use_broadcast of the configuration, enables the broadcast
BroadcastEnabled ==
    IF disc.env.use_broadcast_env = None THEN disc.env.use_broadcast_config
    ELSE disc.env.use_broadcast_env \in {"true", "TRUE", "True"}

\* C31: discover_agents without a host list and without AGENT_DISCOVERY_HOSTS,
\* with AGENT_NETWORK_CONFIG naming an entry of network_configs, probes exactly
\* the hosts of that entry and runs no broadcast, scan, manual-host or
\* localhost step; when the name does not resolve, the run goes on with the
\* manual hosts and, when enabled, the broadcast.
C31_NamedConfigOnly ==
    (disc.pc # "idle" /\ ~disc.arg.given /\ NoEnvHosts)
        => IF ConfigsNamed # {}
           THEN /\ \E i \in ConfigsNamed :
                      disc.host_range = disc.env.network_configs[i].hosts
                /\ Len(disc.task) = Len(disc.host_range)
                /\ ~disc.broadcast
                /\ ~disc.scan
                /\ disc.manual_hosts = <<>>
                /\ disc.broadcast_hosts = <<>>
           ELSE /\ disc.manual_hosts = disc.env.manual_hosts
                /\ disc.broadcast = BroadcastEnabled
                /\ \A i \in 1..Len(disc.env.manual_hosts) :
                      disc.env.manual_hosts[i] \in Elements(disc.host_range)
                /\ BroadcastEnabled =>
                      \A i \in 1..Len(disc.env.broadcast_hosts) :
                          disc.env.broadcast_hosts[i] \in Elements(disc.host_range)

C31_Witness ==
    /\ disc.pc = "gather"
    /\ ~disc.arg.given
    /\ NoEnvHosts
    /\ disc.env.network_name = "lab"
    /\ Len(disc.env.network_configs) = 2
    /\ disc.env.manual_hosts # <<>>
    /\ disc.env.broadcast_hosts # <<>>
    /\ disc.host_range = <<"h2:5001">>
    /\ disc.task = <<"done">>
    /\ Len(agents) = 1

\* AGENT_SCAN_NETWORK, or scan_network of the configuration, enables the scan
ScanEnabled ==
    IF disc.env.scan_network_env = None THEN disc.env.scan_network_config
    ELSE disc.env.scan_network_env \in {"true", "TRUE", "True"}

\* the addresses a scan may enumerate: the loopback address when the own
\* address is unknown, else the first n usable addresses of the /24 network
ScanAddresses ==
    {<<"127.0.0.1">>}
        \cup {[i \in 1..n |-> disc.env.local_ip.net \o "." \o ToString(i)] :
                 n \in IF disc.env.local_ip.ok THEN 0..20 ELSE {}}

\* the candidates at ports 5001, 5002 and 5003 of each address, in order
ThreePorts(ips) ==
    [k \in 1..(3 * Len(ips)) |->
        ips[(k + 2) \div 3] \o ":" \o ToString(5001 + ((k - 1) % 3))]

\* C32: the subnet scan runs only when the manual hosts and the broadcast left
\* no candidate and scanning is enabled; its candidates are, for each of at
\* most 20 addresses of the local /24 network, the three at ports 5001, 5002
\* and 5003, at most 60 in all.
C32_ScanStep ==
    (disc.pc # "idle" /\ disc.scan)
        => /\ ~disc.arg.given /\ NoEnvHosts /\ ConfigsNamed = {}
           /\ disc.env.manual_hosts = <<>>
           /\ BroadcastEnabled => disc.env.broadcast_hosts = <<>>
           /\ ScanEnabled
           /\ \E ips \in ScanAddresses : disc.host_range = ThreePorts(ips)
           /\ Len(disc.host_range) <= 60
           /\ Len(disc.task) = Len(disc.host_range)

C32_Witness ==
    /\ disc.pc = "gather"
    /\ disc.scan
    /\ Len(disc.host_range) = 60
    /\ disc.host_range[1] = "10.0.0.1:5001"
    /\ disc.host_range[60] = "10.0.0.20:5003"
    /\ \A i \in 1..60 : disc.task[i] = "done"

\* C33: when a call without a host list finds no AGENT_DISCOVERY_HOSTS, no
\* network configuration under AGENT_NETWORK_CONFIG, no manual host, no answer
\* to the broadcast and scanning disabled, discover_agents probes exactly
\* localhost:5001, localhost:5002, 127.0.0.1:5001 and 127.0.0.1:5002.
C33_LocalhostFallback ==
    (/\ disc.pc # "idle"
     /\ ~disc.arg.given
     /\ NoEnvHosts
     /\ ConfigsNamed = {}
     /\ disc.env.manual_hosts = <<>>
     /\ BroadcastEnabled => disc.env.broadcast_hosts = <<>>
     /\ ~ScanEnabled)
        => /\ disc.pc = "gather"
           /\ disc.host_range =
                  <<"localhost:5001", "localhost:5002", "127.0.0.1:5001", "127.0.0.1:5002">>
           /\ Len(disc.task) = 4
           /\ ~disc.scan

C33_Witness ==
    /\ disc.pc = "gather"
    /\ ~disc.arg.given
    /\ NoEnvHosts
    /\ ConfigsNamed = {}
    /\ disc.env.manual_hosts = <<>>
    /\ ~BroadcastEnabled /\ disc.env.broadcast_hosts # <<>>
    /\ ~ScanEnabled
    /\ disc.task = <<"done", "done", "done", "done">>
    /\ disc.host_range[3] = "127.0.0.1:5001"
    /\ Len(agents) = 1 /\ agents[1].host = "127.0.0.1"

\* C34: a discover_agents run sends at most one /capabilities request for each
\* entry of its candidate list, and an execute_command call sends one /execute
\* request at most, to the agent select_agent returned: a failed request is
\* neither repeated nor sent to another agent.
C34_SingleAttempt ==
    /\ [][(disc.pc = "gather" /\ disc'.pc = "gather")
             => /\ disc'.host_range = disc.host_range
                /\ Len(disc'.task) = Len(disc.host_range)
                /\ \A i \in 1..Len(disc.task) :
                      /\ disc.task[i] = "probe" => disc'.task[i] \in {"probe", "done"}
                      /\ disc.task[i] = "done" => disc'.task[i] = "done"]_vars
    /\ [][(ex.pc # "dispatch" /\ ex'.pc = "dispatch")
             => /\ ex'.sent = 1
                /\ ex'.agent = select_agent(agents, ex'.parsed).agent]_vars
    /\ [][(ex.pc = "dispatch" /\ ex' # ex)
             => /\ ex'.pc = "returned"
                /\ ex'.sent = 1
                /\ ex'.status # 200 => ex'.result.agent_id = ex.agent.id]_vars
    /\ [](ex.sent <= 1)

C34_Witness ==
    /\ Len(agents) = 2
    /\ \A i \in 1..2 : agents[i].is_healthy
    /\ ex.pc = "returned"
    /\ ex.sent = 1
    /\ ex.status = 0
    /\ ex.result.success = FALSE
    /\ ex.result.agent_id = agents[1].id
    /\ disc.pc = "gather"
    /\ disc.task = <<"done">>
    /\ register_log.id # "a2"

\* the reply being handled by the monitor's sweep is a failure: an exception,
\* a timeout or a status other than 200
HealthFails ==
    hc[1].pc = "reply" => ~(hc[1].resp.kind = "http" /\ hc[1].resp.status = 200)

\* the reply being handled by the monitor's sweep has status 200
HealthAnswers200 ==
    hc[1].pc = "reply" => (hc[1].resp.kind = "http" /\ hc[1].resp.status = 200)

\* C35: with the health monitor scheduled fairly, an agent whose health
\* endpoint fails on every attempt from some point on is eventually marked
\* unhealthy and stays so, hence out of select_agent's reach, while it keeps
\* failing; an agent whose endpoint answers 200 from some point on is
\* eventually marked healthy again.
C35_MonitorConverges ==
    /\ (<>[]HealthFails) => <>[](\A a \in Entries(agents) : ~a.is_healthy)
    /\ (<>[]HealthAnswers200) => <>[](\A a \in Entries(agents) : a.is_healthy)

\* the command holds one of the blacklisted patterns, whatever the case of its
\* letters
HasDangerousPattern(command) ==
    \E pattern \in {<<"r", "m", " ", "-", "r", "f">>, <<"d", "e", "l", " ", "/", "f">>,
                    <<"f", "o", "r", "m", "a", "t">>,
                    <<"s", "h", "u", "t", "d", "o", "w", "n">>,
                    <<"r", "e", "b", "o", "o", "t">>} :
        Contains(pattern, StrLower(command))

IsDiscoveryProbe(d) ==
    /\ d.data.form = "object"
    /\ "type" \in DOMAIN d.data.obj
    /\ d.data.obj.type = "agent_discovery"

\* C37: the discovery listener answers a received datagram whose JSON type is
\* agent_discovery with exactly one agent_response datagram, sent to the
\* source address of that datagram and carrying the agent's HTTP port, id,
\* name and os_type; a malformed datagram or one of another type gets no
\* answer; and no datagram ends the listening, so later probes are answered
\* as well.
C37_ListenerAnswers ==
    /\ [](ag.listener.received # [none |-> TRUE]
            => LET d == ag.listener.received
                   sent == ag.listener.sent
               IN  IF IsDiscoveryProbe(d)
                   THEN /\ Len(sent) = 1
                        /\ sent[1].to = d.sender
                        /\ sent[1].data.type = "agent_response"
                        /\ sent[1].data.port = ag.info.port
                        /\ sent[1].data.agent_id = ag.info.id
                        /\ sent[1].data.name = ag.info.name
                        /\ sent[1].data.os_type = ag.info.os_type
                   ELSE sent = <<>>)
    /\ [][ag.listener.pc = "listening" => ag'.listener.pc = "listening"]_vars

C37_Witness ==
    /\ ag.listener.logged
    /\ IsDiscoveryProbe(ag.listener.received)
    /\ ag.listener.received.sender = "h2"
    /\ ag.info.port = 5002
    /\ ag.listener.sent =
           <<[to |-> "h2",
              data |-> [type |-> "agent_response", port |-> 5002, agent_id |-> "a1",
                        name |-> "n1", os_type |-> ag.info.os_type]]>>

\* C38: when a step of a sweep changes is_healthy or last_seen of the entry of
\* an id, the address the sweep probed for that id is the host and port the
\* entry holds at that moment; an entry re-registered with another address
\* during the sweep does not get the verdict of the old address.
C38_VerdictFromEntryAddress ==
    [][\A c \in Calls :
          (hc[c].pc = "reply" /\ hc'[c] # hc[c])
          => LET probed == hc[c].snap[hc[c].idx]
             IN  (/\ probed.id \in Ids(agents)
                  /\ \/ Lookup(agents', probed.id).is_healthy
                           # Lookup(agents, probed.id).is_healthy
                     \/ Lookup(agents', probed.id).last_seen
                           # Lookup(agents, probed.id).last_seen)
                 => /\ Lookup(agents, probed.id).host = probed.host
                    /\ Lookup(agents, probed.id).port = probed.port]_vars

\* C39: the last_seen of an id in the directory never decreases, whatever
\* discovery runs, registrations and health sweeps take place.
C39_LastSeenNeverDecreases ==
    [][\A id \in Ids(agents) :
          id \in Ids(agents')
              => Lookup(agents', id).last_seen >= Lookup(agents, id).last_seen]_vars

\* the probes of the run that hold a permit
InFlight == {i \in 1..Len(disc.task) : disc.task[i] = "probe"}

\* C40: discover_agents and health_check_agents come to an end. With more
\* candidates than permits every probe gets a permit, ends and gives the
\* permit back, so that all 10 permits are free when the run returns; a sweep
\* makes at most 3 attempts for an agent of its snapshot and gives up the lock
\* however it ends, so that a caller waiting for the lock gets it: a waiting
\* call goes on only by taking the free lock, and every call ends.
C40_Termination ==
    /\ [](disc.pc = "gather"
            => disc.semaphore = SemaphorePermits - Cardinality(InFlight))
    /\ [][(disc.pc = "gather" /\ disc'.pc = "idle")
             => /\ disc.semaphore = SemaphorePermits
                /\ \A i \in 1..Len(disc.task) : disc.task[i] = "done"]_vars
    /\ (disc.pc # "idle") ~> (disc.pc = "idle")
    /\ [](\A c \in Calls :
             /\ hc[c].attempt < MaxAttempts
             /\ hc[c].pc \in {"idle", "wait", "done", "raised"} => lock_holder # c)
    /\ [][\A c \in Calls :
             (hc[c].pc = "wait" /\ hc'[c].pc # "wait")
                 => (lock_holder = 0 /\ Head(lock_waiters) = c)]_vars
    /\ \A c \in Calls : (hc[c].pc # "idle") ~> (hc[c].pc \in {"done", "raised"})

C40_Witness ==
    /\ disc.pc = "idle"
    /\ "a1" \in Ids(agents)
    /\ \E c1, c2 \in Calls :
          /\ hc[c1].pc = "raised"
          /\ hc[c2].pc = "probe"
          /\ hc[c2].attempt = MaxAttempts - 1
          /\ lock_holder = c2

====
